---- MODULE Spec2Model ----
(***************************************************************************)
(* Event ingestion, correlation and billing of ipauseads-backend:          *)
(* POST /v1/events (src/routes/v1/events.js), the idempotency cache, the   *)
(* event receipts, the advertiser wallet with its ledger, the legacy       *)
(* wallet routes of src/routes/billing.js; the publisher credentials with  *)
(* their admin routes and the read routes GET /v1/events; under the        *)
(* specification SpecMetrics, the attention metrics calculators; under     *)
(* SpecRollup, the rollup document A2ARMetric.updateMetrics keeps; and,     *)
(* under SpecLogin, POST /login with the lockout of the User model.         *)
(*                                                                         *)
(* Every await of a handler that reaches the database is one step of the   *)
(* request that runs it; requests interleave at those steps.  A MongoDB    *)
(* transaction is a snapshot taken at its first read, writes that conflict *)
(* with a document changed since the snapshot (WriteConflict), and a       *)
(* commit that makes all its writes visible at once.                       *)
(***************************************************************************)
EXTENDS Integers, Sequences, FiniteSets, TLC

\* ------------------------------------------------------------------ bounds

MaxRequests == 3      \* event submissions in one behaviour
MaxLedgerOps == 2     \* deposits and legacy conversion notifications in one behaviour
MaxFaults == 1        \* injected database errors and process crashes
MaxTicks == 1         \* clock ticks
MaxAdminOps == 1      \* status changes and key regenerations by the admin
MaxSeconds == 42      \* latest scan time handed to the scan velocity calculators
MaxConversions == 27  \* most conversions of a rollup handed to the rate calculators
MaxUpdates == 4       \* calls of updateMetrics on one rollup in one behaviour
MaxLogins == 6        \* login requests in one behaviour
MinutesPerTick == 16  \* minutes one tick stands for while logins are checked
HoursPerTick == 24    \* hours one tick stands for

Procs == {"p1", "p2"} \* requests in flight at the same time

\* ------------------------------------------------------------- input alphabet

NoKey == "none"
NoOpp == "none"
Keys == {"k1", "k2", "k3"}
Advertisers == {"a1"}
Publishers == {"pubA", "pubB"}
DepositAmounts == {-5, 5}
ScanIds == {1}

Body(t, e, o, c, r) ==
  [type |-> t, eventId |-> e, complete |-> TRUE, opp |-> o, campaign |-> c, result |-> r,
   publisher |-> "pubA"]

NoBody == Body("none", "none", NoOpp, "na", "na")

Impression1 == Body("pause_impression", "e1", "o1", "c1", "na")
Conversion2 == Body("qr_conversion", "e2", "o1", "na", "success")
Conversion3 == Body("qr_conversion", "e3", "o1", "na", "success")
Conversion1 == Body("qr_conversion", "e1", "o1", "na", "success")
Bogus2 == Body("bogus", "e2", "o1", "na", "na")
Impression4 == Body("pause_impression", "e4", "o1", "c9", "na")
Conversion5 == Body("qr_conversion", "e5", "o2", "na", "success")
Impression6 == [Body("pause_impression", "e6", "o3", "c1", "na") EXCEPT !.publisher = "pubB"]
Incomplete7 == [Body("pause_impression", "e7", "o1", "c1", "na") EXCEPT !.complete = FALSE]
Conversion8 == Body("qr_conversion", "e8", NoOpp, "na", "success")
Impression9 == Body("pause_impression", "e9", "o9", "c0", "na")
Conversion10 == Body("qr_conversion", "e10", "o9", "na", "success")
Conversion11 == [Body("qr_conversion", "e11", "o1", "na", "success") EXCEPT !.publisher = "pubB"]

\* The credentials of a request: a bearer API key, or the signature headers
\* with the secret that signed them and whether the timestamp is within five
\* minutes.  An API key is the publisher it was generated for and the number
\* of the generation; generateApiKey never returns a key twice.
ApiKey(pub, n) == [owner |-> pub, gen |-> n]
NoApiKey == ApiKey("none", 0)
Bearer(key) == [scheme |-> "bearer", apiKey |-> key, secret |-> "none", fresh |-> TRUE]
Signed(secret, fresh) == [scheme |-> "signed", apiKey |-> NoApiKey, secret |-> secret, fresh |-> fresh]
NoCredential == [scheme |-> "none", apiKey |-> NoApiKey, secret |-> "none", fresh |-> TRUE]
WebhookSecret(pub) == IF pub = "pubA" THEN "whsecA" ELSE "whsecB"

\* The first API key of pubA.
FirstCredential == Bearer(ApiKey("pubA", 0))

\* The queries of the read endpoints: one receipt id, or a list filter.
GetQuery(id) == [op |-> "get", id |-> id, type |-> "any"]
ListQuery(t) == [op |-> "list", id |-> 0, type |-> t]
NoQuery == [op |-> "none", id |-> 0, type |-> "any"]

\* What the environment does in one behaviour: the requests it may send and
\* how many, and how often the clock ticks, a database call fails or a process
\* dies, and a wallet route is called.  A behaviour runs under one of them.
Scenarios ==
  { [name |-> "replay", requests |-> MaxRequests, ticks |-> MaxTicks, faults |-> 0, ledgerOps |-> 0, adminOps |-> 0],
    [name |-> "faults", requests |-> MaxRequests, ticks |-> 0, faults |-> MaxFaults, ledgerOps |-> 1, adminOps |-> 0],
    [name |-> "ledger", requests |-> MaxRequests, ticks |-> 0, faults |-> 0, ledgerOps |-> MaxLedgerOps, adminOps |-> 0],
    [name |-> "correlation", requests |-> MaxRequests, ticks |-> 0, faults |-> 0, ledgerOps |-> 0, adminOps |-> 0],
    [name |-> "access", requests |-> MaxRequests - 1, ticks |-> 0, faults |-> 0, ledgerOps |-> 0, adminOps |-> MaxAdminOps],
    [name |-> "reads", requests |-> MaxRequests, ticks |-> 0, faults |-> 0, ledgerOps |-> 0, adminOps |-> 0],
    [name |-> "validation", requests |-> MaxRequests, ticks |-> 0, faults |-> 0, ledgerOps |-> 0, adminOps |-> 0],
    [name |-> "fees", requests |-> MaxRequests - 1, ticks |-> 0, faults |-> 0, ledgerOps |-> 1, adminOps |-> 0],
    [name |-> "tenants", requests |-> MaxRequests, ticks |-> 0, faults |-> 0, ledgerOps |-> 0, adminOps |-> 0] }

\* The <<Idempotency-Key, body>> pairs a scenario sends.
Inputs(name) ==
  IF name = "replay"
    THEN {"k1", "k2"} \X {Impression1, Conversion2, Conversion1, Bogus2}
  ELSE IF name = "faults"
    THEN {"k1", "k2"} \X {Impression1, Conversion2}
  ELSE IF name = "ledger"
    THEN {<<"k1", Impression1>>, <<"k2", Conversion2>>, <<"k3", Conversion3>>}
  ELSE IF name = "access"
    THEN {<<"k1", Impression1>>}
  ELSE IF name = "reads"
    THEN {<<"k1", Impression1>>, <<"k2", Impression6>>}
  ELSE IF name = "validation"
    THEN {<<"k1", Impression1>>, <<"k1", Bogus2>>, <<"k2", Bogus2>>, <<NoKey, Impression1>>,
          <<"k2", Incomplete7>>, <<"k3", Conversion8>>}
  ELSE IF name = "fees"
    THEN {<<"k1", Impression9>>, <<"k2", Conversion10>>}
  ELSE IF name = "tenants"
    THEN {<<"k1", Impression1>>, <<"k1", Impression6>>, <<"k2", Conversion11>>}
  ELSE {<<"k1", Impression1>>, <<"k2", Conversion2>>, <<"k3", Impression4>>, <<"k3", Conversion5>>}

\* The credentials a scenario sends with its requests.
Credentials(name) ==
  IF name = "access"
    THEN {Bearer(ApiKey("pubA", n)) : n \in 0..MaxAdminOps}
         \cup {Signed("whsecA", TRUE), Signed("whsecA", FALSE), Signed("whsecB", TRUE), NoCredential}
  ELSE IF name \in {"reads", "tenants"}
    THEN {FirstCredential, Bearer(ApiKey("pubB", 0))}
  ELSE {FirstCredential}

\* The queries a scenario sends to the read endpoints.
Queries(name) ==
  IF name = "reads"
    THEN {GetQuery(id) : id \in 1..(MaxRequests - 1)}
         \cup {ListQuery(t) : t \in {"any", "pause_impression", "qr_conversion"}}
  ELSE IF name = "access"
    THEN {ListQuery("any")}
  ELSE {}

\* ------------------------------------------------------------ configuration

\* QrCode documents: campaign id -> advertiser, fee, publisher share.  c1 has
\* the defaults of the schema, c0 is configured to cost nothing.
QrCodes ==
  [c1 |-> [advertiser |-> "a1", conversionFee |-> 5, publisherShare |-> 3],
   c0 |-> [advertiser |-> "a1", conversionFee |-> 0, publisherShare |-> 0]]

NoQrCode == [advertiser |-> "none", conversionFee |-> 0, publisherShare |-> 0]

QrCodeFindOne(c) == IF c \in DOMAIN QrCodes THEN QrCodes[c] ELSE NoQrCode

\* The legacy Scan documents: their advertiser and QR code.
ScanAdvertiser(s) == "a1"
ScanQrId(s) == "c1"

ttlHours == 24
DefaultConversionFee == 5

\* A timestamp that was not given, or is null.
NoTime == -1

\* incLoginAttempts: the failed attempts that lock an account, and the minutes
\* the lock lasts.
maxAttempts == 5
lockTime == 15

Emails == {"u1"}

\* The account as it is registered.
NewUser == [status |-> "active", loginAttempts |-> 0, lockUntil |-> NoTime, lastLogin |-> NoTime]

\* ------------------------------------------------------------------- state

VARIABLES
  receipts,      \* EventReceipt collection, in insertion (processedAt) order; _id = index
  cache,         \* IdempotencyCache collection
  wallets,       \* Wallet collection: advertiser -> document
  ledger,        \* WalletTransaction collection, in insertion order
  billing,       \* BillingRecord collection, in insertion order
  rollups,       \* A2ARMetric collection: advertiser -> document of one day and program
  scans,         \* legacy Scan collection: scan id -> document
  req,           \* the request each process runs, with its locals
  now,           \* the clock, in ticks
  env,           \* what the environment may still do
  firstAccepted, \* per idempotency key, the first 200 accepted response sent
  publishers,    \* PublisherApiKey collection: publisher id -> document
  metric,        \* the attention metrics calculator: its arguments and its result
  users          \* User collection: email -> document

vars == <<receipts, cache, wallets, ledger, billing, rollups, scans, req, now,
          env, firstAccepted, publishers, metric, users>>

\* A call of one of the attention metrics calculators: the function, its two
\* arguments, and, once it has returned, its tier (or level) and its value.
Call(fn, x, y) == [fn |-> fn, x |-> x, y |-> y, done |-> FALSE, tier |-> 0, value |-> 0]

\* The calculator at rest.
NoMetric == Call("none", 0, 0)

\* ---------------------------------------------------------------- responses

Resp(code, status, rid, mp, at) ==
  [code |-> code, status |-> status, receipt_id |-> rid, matched_pause_id |-> mp, ingested_at |-> at]

NoResp == Resp(0, "none", 0, 0, 0)
ErrorResp(code, error) == Resp(code, error, 0, 0, 0)

\* ----------------------------------------------------------------- helpers

nowHours == now * HoursPerTick

Range(s) == {s[i] : i \in DOMAIN s}

\* checkDuplicate without the key in its filter.
checkDuplicateAnyKey(k) == {c \in cache : c.expiresAt > nowHours}

\* IdempotencyCache.checkDuplicate: the unexpired entry of the key, if any.
checkDuplicate(k) == {c \in cache : c.idempotencyKey = k /\ c.expiresAt > nowHours}

\* EventReceipt.findOne({ eventId }): ids of the receipts of an event id.
findByEventId(e) == {i \in DOMAIN receipts : receipts[i].eventId = e}

\* EventReceipt.findMatchingPause: the impression of the opportunity id stored last.
ImpressionsOf(o) ==
  {i \in DOMAIN receipts : receipts[i].eventType = "pause_impression"
                           /\ receipts[i].ipauseOpportunityId = o}

\* sort({ processedAt: 1 }): the receipt stored first.
Min(S) == CHOOSE x \in S : \A y \in S : x <= y

\* sort({ processedAt: -1 }): the receipt stored last.
Max(S) == CHOOSE x \in S : \A y \in S : y <= x

\* findMatchingPause without the opportunity id in its filter.
findMatchingPauseAnyOpportunity(o) ==
  LET all == {i \in DOMAIN receipts : receipts[i].eventType = "pause_impression"}
  IN IF all = {} THEN 0 ELSE Max(all)

findMatchingPause(o) == IF ImpressionsOf(o) = {} THEN 0 ELSE Max(ImpressionsOf(o))

InFlight(p) == req[p].pc \notin {"idle", "done", "crashed"}

\* The state of an idempotency key when a request carrying it is sent: never
\* used, held by a receipt only, cached and unexpired, or cached and expired.
KeyState(k) ==
  IF k \in Keys /\ firstAccepted[k] # NoResp
    THEN IF firstAccepted[k].ingested_at + ttlHours > nowHours THEN "live" ELSE "expired"
  ELSE IF \E i \in DOMAIN receipts : receipts[i].idempotencyKey = k THEN "used"
  ELSE "new"

\* The request repeats an earlier one that is no longer running: its key has
\* no accepted answer and is held by the receipt of its event id.
IsRetry(p, k, b) ==
  /\ KeyState(k) = "used"
  /\ \E i \in DOMAIN receipts : receipts[i].eventId = b.eventId /\ receipts[i].idempotencyKey = k
  /\ \A q \in Procs \ {p} : ~(InFlight(q) /\ req[q].key = k)

\* The process has just answered 404 pause_not_found to this key and body.
Refused(p, k, b) ==
  /\ req[p].kind = "event" /\ req[p].pc = "done"
  /\ req[p].resp.code = 404
  /\ req[p].key = k /\ req[p].body = b

\* A request and its locals.  evSeen, impSeen and keySeen record what the store
\* held when the request was sent: a receipt of its event id, the impression of
\* its opportunity id, the state of its key.  hit: the guard answered it from
\* the cache.  fault: a database call of it failed or its process died, and
\* diedAt: the step at which it died.  retry: the request repeats, key and
\* event id, one that stored its receipt and ended without an accepted answer.
\* funds: what processBilling found in the wallet, "short" of the fee or
\* "enough", and "conflict" when its transaction was aborted by a WriteConflict.
\* refused: the request repeats, key and body, the request its process answered
\* 404 pause_not_found just before.  cred: its credentials, and credSeen: what
\* they were worth when it was sent.  publisher: req.publisher.publisherId.
\* query and returned: what a read asked for and the receipts it was sent.
NewReq(kind, k, b, pc) ==
  [kind |-> kind, key |-> k, body |-> b, pc |-> pc, resp |-> NoResp,
   hit |-> FALSE, pauseId |-> 0, pauseLoaded |-> "none",
   receiptId |-> 0, adv |-> "none", snapBal |-> 0, snapWVer |-> 0, snapRVer |-> 0,
   amount |-> 0, scan |-> 0, evSeen |-> FALSE, impSeen |-> 0, keySeen |-> "new",
   fault |-> FALSE, diedAt |-> "none", retry |-> FALSE, funds |-> "none",
   refused |-> FALSE, cred |-> NoCredential, credSeen |-> "none",
   publisher |-> "none", query |-> NoQuery, returned |-> {}]

IdleReq == NewReq("none", NoKey, NoBody, "idle")

\* The locals of a request that has ended are gone.
Ended(r, pc, resp) ==
  [r EXCEPT !.pc = pc, !.resp = resp, !.pauseLoaded = "none", !.adv = "none",
            !.snapBal = 0, !.snapWVer = 0, !.snapRVer = 0]

Done(p, r) == req' = [req EXCEPT ![p] = Ended(req[p], "done", r)]

Goto(p, pc) == req' = [req EXCEPT ![p].pc = pc]

\* The processes take requests in order: p2 only while p1 is busy.
Free(p) == ~InFlight(p) /\ (p = "p2" => InFlight("p1"))

\* ---------------------------------------------------------------- initial

\* Every collection but the rollups.
Collections ==
  /\ receipts = <<>>
  /\ cache = {}
  /\ wallets = [a \in Advertisers |-> [exists |-> FALSE, balance |-> 0, ver |-> 0]]
  /\ ledger = <<>>
  /\ billing = <<>>
  /\ scans = [s \in ScanIds |-> [conversion |-> FALSE, ver |-> 0]]
  /\ req = [p \in Procs |-> IdleReq]
  /\ now = 0
  /\ firstAccepted = [k \in Keys |-> NoResp]
  /\ publishers = [pub \in Publishers |->
                     [status |-> "active", apiKey |-> ApiKey(pub, 0),
                      webhookSecret |-> WebhookSecret(pub)]]
  /\ users = [e \in Emails |-> NewUser]

\* The store of the event routes: of a rollup only its two counters are kept.
Store ==
  /\ Collections
  /\ rollups = [a \in Advertisers |-> [pauseOpportunities |-> 0, verifiedConversions |-> 0]]

Init ==
  /\ Store
  /\ env \in Scenarios
  /\ metric = NoMetric

\* --------------------------------------------------------- POST /v1/events

\* PublisherApiKey.findByApiKey with the status left out of its filter.
findByApiKeyAnyStatus(key) ==
  {pub \in Publishers : publishers[pub].apiKey = key}

\* PublisherApiKey.findByApiKey: the active publisher that holds the key.
findByApiKey(key) ==
  {pub \in Publishers : publishers[pub].apiKey = key /\ publishers[pub].status = "active"}

\* verifySignature: the HMAC of the request under the publisher's webhook
\* secret equals the signature, which the sender made with its own secret.
verifySignature(pub, cred) == publishers[pub].webhookSecret = cred.secret

AuthOk(pub) == [code |-> 200, error |-> "none", publisher |-> pub]
AuthError(code, error) == [code |-> code, error |-> error, publisher |-> "none"]

\* authenticatePublisher: the bearer key, else the signed webhook headers with
\* the publisher id of the body, else 401.
authenticatePublisher(cred, b) ==
  IF cred.scheme = "bearer"
    THEN IF findByApiKey(cred.apiKey) = {}
           THEN AuthError(401, "invalid_credentials")
           ELSE AuthOk(CHOOSE pub \in findByApiKey(cred.apiKey) : TRUE)
  ELSE IF cred.scheme = "signed"
    THEN IF b.publisher \notin Publishers
           THEN AuthError(400, "missing_publisher_id")
         ELSE IF publishers[b.publisher].status # "active"
           THEN AuthError(401, "publisher_not_found")
         ELSE IF ~verifySignature(b.publisher, cred)
           THEN AuthError(401, "invalid_signature")
         ELSE IF ~cred.fresh
           THEN AuthError(401, "timestamp_expired")
         ELSE AuthOk(b.publisher)
  ELSE AuthError(401, "authentication_required")

\* What the credentials are worth when the request is sent: "current", the API
\* key or the webhook secret a publisher holds now, that publisher being active;
\* "inactive", the same of a publisher that is suspended or revoked; "old", an
\* API key that was regenerated since; "none" otherwise.
CredentialState(cred, b) ==
  IF cred.scheme = "bearer"
    THEN IF cred.apiKey.owner \notin Publishers THEN "none"
         ELSE IF cred.apiKey.gen < publishers[cred.apiKey.owner].apiKey.gen THEN "old"
         ELSE IF cred.apiKey.gen > publishers[cred.apiKey.owner].apiKey.gen THEN "none"
         ELSE IF publishers[cred.apiKey.owner].status = "active" THEN "current"
         ELSE "inactive"
  ELSE IF cred.scheme = "signed" /\ b.publisher \in Publishers
          /\ cred.secret = WebhookSecret(b.publisher) /\ cred.fresh
    THEN IF publishers[b.publisher].status = "active" THEN "current" ELSE "inactive"
  ELSE "none"

\* A publisher sends an event: authenticatePublisher, whose only await is its
\* lookup of the publisher, answers it or passes it on to checkIdempotency.
\* (recordUsage, not awaited, saves lastUsedAt and requestsCount, which no
\* handler reads.)
Submit(p) ==
  /\ Free(p)
  /\ env.requests > 0
  /\ env' = [env EXCEPT !.requests = @ - 1]
  /\ \E in \in Inputs(env.name), cred \in Credentials(env.name) :
       LET k == in[1]
           b == in[2]
           a == authenticatePublisher(cred, b)
           r == [NewReq("event", k, b, "guard") EXCEPT
                   !.evSeen = findByEventId(b.eventId) # {},
                   !.impSeen = findMatchingPause(b.opp),
                   !.keySeen = KeyState(k),
                   !.retry = IsRetry(p, k, b),
                   !.refused = Refused(p, k, b),
                   !.cred = cred,
                   !.credSeen = CredentialState(cred, b),
                   !.publisher = a.publisher]
       IN req' = [req EXCEPT ![p] =
                    IF a.code = 200 THEN r ELSE Ended(r, "done", ErrorResp(a.code, a.error))]
  /\ UNCHANGED <<receipts, cache, wallets, ledger, billing, rollups, scans, now, firstAccepted, publishers, metric, users>>

\* The validation without the handlers' checks of the required fields.
ValidateTypeOnly(b) ==
  IF b.type \notin {"pause_impression", "qr_conversion"} THEN "invalid_event_type"
  ELSE IF b.opp = NoOpp THEN "missing_opportunity_id"
  ELSE "ok"

\* The validation the route and the two handlers run before their first await.
Validate(b) ==
  IF b.type \notin {"pause_impression", "qr_conversion"} THEN "invalid_event_type"
  ELSE IF ~b.complete THEN "missing_required_fields"
  ELSE IF b.opp = NoOpp THEN "missing_opportunity_id"
  ELSE "ok"

\* The route with the validation in front of checkIdempotency.
GuardOutcomeValidateFirst(r) ==
  IF r.key = NoKey THEN "missing_idempotency_key"
  ELSE IF Validate(r.body) # "ok" THEN Validate(r.body)
  ELSE IF checkDuplicate(r.key) # {} THEN "cached"
  ELSE "ok"

\* The order of the route: checkIdempotency runs before the route's and the
\* handlers' validation.
GuardOutcome(r) ==
  IF r.key = NoKey THEN "missing_idempotency_key"
  ELSE IF checkDuplicate(r.key) # {} THEN "cached"
  ELSE Validate(r.body)

\* checkIdempotency, then the route's and the handler's validation.
CheckIdempotency(p) ==
  /\ req[p].kind = "event" /\ req[p].pc = "guard"
  /\ LET o == GuardOutcome(req[p])
     IN IF o = "cached"
          THEN LET c == CHOOSE c \in checkDuplicate(req[p].key) : TRUE
               IN req' = [req EXCEPT ![p] = [Ended(req[p], "done", c.responsePayload) EXCEPT !.hit = TRUE]]
        ELSE IF o # "ok"
          THEN Done(p, ErrorResp(400, o))
        ELSE Goto(p, "find")
  /\ UNCHANGED <<receipts, cache, wallets, ledger, billing, rollups, scans, now, env, firstAccepted, publishers, metric, users>>

\* Both handlers: EventReceipt.findOne({ eventId }) and the duplicate answer.
FindExisting(p) ==
  /\ req[p].kind = "event" /\ req[p].pc = "find"
  /\ LET found == findByEventId(req[p].body.eventId)
     IN IF found # {}
          THEN Done(p, Resp(200, "duplicate", CHOOSE e \in found : TRUE, 0, 0))
          ELSE Goto(p, IF req[p].body.type = "pause_impression" THEN "create" ELSE "match")
  /\ UNCHANGED <<receipts, cache, wallets, ledger, billing, rollups, scans, now, env, firstAccepted, publishers, metric, users>>

\* handleQRConversion: findMatchingPause, 404 when there is none.
MatchPause(p) ==
  /\ req[p].kind = "event" /\ req[p].pc = "match"
  /\ LET m == findMatchingPause(req[p].body.opp)
     IN IF m = 0
          THEN Done(p, ErrorResp(404, "pause_not_found"))
          ELSE req' = [req EXCEPT ![p].pc = "create", ![p].pauseId = m,
                                  ![p].pauseLoaded = receipts[m].billingStatus]
  /\ UNCHANGED <<receipts, cache, wallets, ledger, billing, rollups, scans, now, env, firstAccepted, publishers, metric, users>>

InitialStatus(b) ==
  IF b.type = "pause_impression" THEN "pending"
  ELSE IF b.result = "success" THEN "billable" ELSE "non_billable"

\* EventReceipt.create without matchedPauseId.
NewReceiptWithoutBackReference(r) ==
  [eventId |-> r.body.eventId, eventType |-> r.body.type,
   ipauseOpportunityId |-> r.body.opp, campaignId |-> r.body.campaign,
   conversionResult |-> r.body.result, idempotencyKey |-> r.key,
   matchedPauseId |-> 0, matchedConversionId |-> 0,
   billingStatus |-> InitialStatus(r.body), processedAt |-> now, ver |-> 0,
   publisherId |-> r.body.publisher, createdBy |-> r.publisher]

\* EventReceipt.create of both handlers.  createdBy is no field of the
\* document: it records req.publisher of the request that stored the receipt.
NewReceipt(r) ==
  [eventId |-> r.body.eventId, eventType |-> r.body.type,
   ipauseOpportunityId |-> r.body.opp, campaignId |-> r.body.campaign,
   conversionResult |-> r.body.result, idempotencyKey |-> r.key,
   matchedPauseId |-> r.pauseId, matchedConversionId |-> 0,
   billingStatus |-> InitialStatus(r.body), processedAt |-> now, ver |-> 0,
   publisherId |-> r.body.publisher, createdBy |-> r.publisher]

\* EventReceipt with the unique index of idempotencyKey missing.
UniqueViolationEventIdOnly(r) ==
  \E i \in DOMAIN receipts : receipts[i].eventId = r.body.eventId

\* EventReceipt with no unique index.
UniqueViolationNone(r) == FALSE

\* EventReceipt with the unique index of eventId missing.
UniqueViolationKeyOnly(r) ==
  \E i \in DOMAIN receipts : receipts[i].idempotencyKey = r.key

\* The unique indexes of EventReceipt: eventId and idempotencyKey.
UniqueViolation(r) ==
  \E i \in DOMAIN receipts :
     receipts[i].eventId = r.body.eventId \/ receipts[i].idempotencyKey = r.key

\* EventReceipt.create of either handler; E11000 lands in the handler's catch.
CreateReceipt(p) ==
  /\ req[p].kind = "event" /\ req[p].pc = "create"
  /\ IF UniqueViolation(req[p])
       THEN /\ Done(p, ErrorResp(500, "processing_failed"))
            /\ UNCHANGED receipts
       ELSE /\ receipts' = Append(receipts, NewReceipt(req[p]))
            /\ req' = [req EXCEPT ![p].receiptId = Len(receipts) + 1,
                                  ![p].pc = IF req[p].body.type = "pause_impression"
                                              THEN "rollup" ELSE "link"]
  /\ UNCHANGED <<cache, wallets, ledger, billing, rollups, scans, now, env, firstAccepted, publishers, metric, users>>

\* ------------------------------------------------------------ transactions

\* A document an open transaction has written stays locked until the
\* transaction ends: p's transaction holds its writes while p is about to commit.
WalletLocked(p, a) ==
  \E q \in Procs \ {p} : req[q].pc \in {"billCommit", "depositCommit", "notifyCommit"} /\ req[q].adv = a

ReceiptLocked(p, i) ==
  \E q \in Procs \ {p} : req[q].pc = "billCommit" /\ req[q].pauseId = i

\* ------------------------------------------------------ handleQRConversion

\* pauseEvent.save(): the fields assigned on the loaded document that differ
\* from what was loaded are written by _id.
LinkedStatus(loaded, assigned, stored) == IF assigned # loaded THEN assigned ELSE stored

\* processBilling is called for a successful conversion; QrCode.findOne of the
\* impression's campaign decides whether it goes on to the wallet.
AfterLink(r) ==
  IF r.body.result # "success" THEN "rollup"
  ELSE IF QrCodeFindOne(receipts[r.pauseId].campaignId).advertiser = "none" THEN "rollup"
  ELSE "billWallet"

LinkPause(p) ==
  /\ req[p].kind = "event" /\ req[p].pc = "link"
  /\ ~ReceiptLocked(p, req[p].pauseId)
  /\ LET m == req[p].pauseId
     IN receipts' = [receipts EXCEPT
          ![m].matchedConversionId = req[p].receiptId,
          ![m].billingStatus = LinkedStatus(req[p].pauseLoaded, InitialStatus(req[p].body), @),
          ![m].ver = @ + 1]
  /\ Goto(p, AfterLink(req[p]))
  /\ UNCHANGED <<cache, wallets, ledger, billing, rollups, scans, now, env, firstAccepted, publishers, metric, users>>

\* ------------------------------------------------------------ processBilling

Fee(q) == IF q.conversionFee = 0 THEN DefaultConversionFee ELSE q.conversionFee

Share(q) == IF q.publisherShare = 0 THEN (Fee(q) * 6) \div 10 ELSE q.publisherShare

\* The platform cut taken as the whole fee.
IpauseCutWholeFee(fee, share) == fee

IpauseCut(fee, share) == fee - share

\* processBilling without the balance check.
InsufficientFundsNever(balance, fee) == FALSE

\* processBilling refusing only a wallet already below zero.
InsufficientFundsBelowZero(balance, fee) == balance < 0

InsufficientFunds(balance, fee) == balance < fee

DebitedBalance(before, fee) == before - fee

BillingQr(r) == QrCodeFindOne(receipts[r.pauseId].campaignId)

\* Wallet.findOne in the session: the transaction's snapshot.  A wallet that
\* does not exist is created in the session with balance 0.
BillWallet(p) ==
  /\ req[p].kind = "event" /\ req[p].pc = "billWallet"
  /\ LET a == BillingQr(req[p]).advertiser
         bal == IF wallets[a].exists THEN wallets[a].balance ELSE 0
     IN req' = [req EXCEPT ![p].adv = a, ![p].snapBal = bal,
                           ![p].funds = IF bal < Fee(BillingQr(req[p])) THEN "short" ELSE "enough",
                           ![p].snapWVer = wallets[a].ver,
                           ![p].snapRVer = receipts[req[p].pauseId].ver,
                           ![p].pc = IF InsufficientFunds(bal, Fee(BillingQr(req[p])))
                                       THEN "billNonBillable" ELSE "billWrite"]
  /\ UNCHANGED <<receipts, cache, wallets, ledger, billing, rollups, scans, now, env, firstAccepted, publishers, metric, users>>

\* Insufficient balance: the impression is marked non_billable outside the
\* session, then the transaction is aborted.
BillNonBillable(p) ==
  /\ req[p].kind = "event" /\ req[p].pc = "billNonBillable"
  /\ ~ReceiptLocked(p, req[p].pauseId)
  /\ receipts' = [receipts EXCEPT ![req[p].pauseId].billingStatus = "non_billable",
                                  ![req[p].pauseId].ver = @ + 1]
  /\ Goto(p, "rollup")
  /\ UNCHANGED <<cache, wallets, ledger, billing, rollups, scans, now, env, firstAccepted, publishers, metric, users>>

\* The writes of processBilling outside a transaction: nothing conflicts.
WriteConflictNever(p) == FALSE

\* A write of the transaction meets a document changed since the snapshot, or
\* one another open transaction has written.
WriteConflict(p) ==
  \/ wallets[req[p].adv].ver # req[p].snapWVer
  \/ WalletLocked(p, req[p].adv)
  \/ receipts[req[p].pauseId].ver # req[p].snapRVer
  \/ ReceiptLocked(p, req[p].pauseId)


FeeTransaction(r, fee) ==
  [wallet |-> r.adv, type |-> "conversion_fee", amount |-> 0 - fee,
   balanceBefore |-> r.snapBal, balanceAfter |-> DebitedBalance(r.snapBal, fee),
   referenceId |-> r.receiptId, referenceType |-> "event_receipt"]

FeeRecord(r, q) ==
  [user |-> r.adv, scan |-> r.receiptId, referenceType |-> "event_receipt",
   conversionFee |-> Fee(q), publisherShare |-> Share(q),
   ipauseCut |-> IpauseCut(Fee(q), Share(q))]

\* wallet.save() without { session }.
SessionWritesWithoutWallet == {"transaction", "record", "receipt"}

\* The writes of processBilling that pass { session }: wallet.save,
\* WalletTransaction.create, BillingRecord.create, EventReceipt.findByIdAndUpdate.
SessionWrites == {"wallet", "transaction", "record", "receipt"}

AllWrites == {"wallet", "transaction", "record", "receipt"}

\* The four writes, each visible when `visible` holds its name.
ApplyBilling(p, visible) ==
  LET r == req[p]
      q == BillingQr(r)
  IN /\ wallets' = IF "wallet" \in visible
                     THEN [wallets EXCEPT ![r.adv].balance = DebitedBalance(r.snapBal, Fee(q)),
                                          ![r.adv].ver = @ + 1]
                     ELSE wallets
     /\ ledger' = IF "transaction" \in visible
                    THEN Append(ledger, FeeTransaction(r, Fee(q))) ELSE ledger
     /\ billing' = IF "record" \in visible
                     THEN Append(billing, FeeRecord(r, q)) ELSE billing
     /\ receipts' = IF "receipt" \in visible
                      THEN [receipts EXCEPT ![r.pauseId].billingStatus = "billed",
                                            ![r.pauseId].ver = @ + 1]
                      ELSE receipts

\* The four writes run.  A write in the session is not visible before the
\* commit; a WriteConflict lands in the catch, which aborts.
BillWrite(p) ==
  /\ req[p].kind = "event" /\ req[p].pc = "billWrite"
  /\ IF WriteConflict(p)
       THEN /\ req' = [req EXCEPT ![p].pc = "rollup", ![p].funds = "conflict"]
            /\ UNCHANGED <<receipts, wallets, ledger, billing>>
       ELSE /\ Goto(p, "billCommit")
            /\ ApplyBilling(p, AllWrites \ SessionWrites)
  /\ UNCHANGED <<cache, rollups, scans, now, env, firstAccepted, publishers, metric, users>>

\* session.commitTransaction(): the writes of the session become visible together.
BillCommit(p) ==
  /\ req[p].kind = "event" /\ req[p].pc = "billCommit"
  /\ ApplyBilling(p, SessionWrites)
  /\ Goto(p, "rollup")
  /\ UNCHANGED <<cache, rollups, scans, now, env, firstAccepted, publishers, metric, users>>

\* --------------------------------------------------------- updateA2ARMetrics

RollupCampaign(r) ==
  IF r.body.type = "pause_impression" THEN r.body.campaign ELSE receipts[r.pauseId].campaignId

\* updateA2ARMetrics: no advertiser, nothing; else A2ARMetric.updateMetrics,
\* whose $inc is empty for a conversion that did not succeed.
UpdateRollup(p) ==
  /\ req[p].kind = "event" /\ req[p].pc = "rollup"
  /\ LET a == QrCodeFindOne(RollupCampaign(req[p])).advertiser
         po == IF req[p].body.type = "pause_impression" THEN 1 ELSE 0
         vc == IF req[p].body.type = "qr_conversion" /\ req[p].body.result = "success" THEN 1 ELSE 0
     IN IF a = "none"
          THEN UNCHANGED rollups
          ELSE rollups' = [rollups EXCEPT ![a].pauseOpportunities = @ + po,
                                          ![a].verifiedConversions = @ + vc]
  /\ Goto(p, "cache")
  /\ UNCHANGED <<receipts, cache, wallets, ledger, billing, scans, now, env, firstAccepted, publishers, metric, users>>

\* ------------------------------------------------- the response and its cache

\* The response with the conversion's own receipt as matched_pause_id.
AcceptedNamesSelf(r) ==
  Resp(200, "accepted", r.receiptId, r.receiptId, nowHours)

Accepted(r) ==
  Resp(200, "accepted", r.receiptId, r.pauseId, nowHours)

\* cacheResponse with the expiry left at the time of creation.
CacheEntryNoTtl(r, payload) ==
  [idempotencyKey |-> r.key, receiptId |-> r.receiptId, responsePayload |-> payload,
   expiresAt |-> nowHours]

\* IdempotencyCache.cacheResponse: expiry ttlHours from now.
CacheEntry(r, payload) ==
  [idempotencyKey |-> r.key, receiptId |-> r.receiptId, responsePayload |-> payload,
   expiresAt |-> nowHours + ttlHours]

\* cacheResponse, then res.status(200).json(response).  The unique index of
\* IdempotencyCache.idempotencyKey rejects a second entry of a key.
CacheResponse(p) ==
  /\ req[p].kind = "event" /\ req[p].pc = "cache"
  /\ IF \E c \in cache : c.idempotencyKey = req[p].key
       THEN /\ Done(p, ErrorResp(500, "processing_failed"))
            /\ UNCHANGED <<cache, firstAccepted>>
       ELSE /\ cache' = cache \cup {CacheEntry(req[p], Accepted(req[p]))}
            /\ Done(p, Accepted(req[p]))
            /\ firstAccepted' = [firstAccepted EXCEPT ![req[p].key] =
                                   IF @ = NoResp THEN Accepted(req[p]) ELSE @]
  /\ UNCHANGED <<receipts, wallets, ledger, billing, rollups, scans, now, env, publishers, metric, users>>

\* -------------------------------------------------------- GET /v1/events

\* A publisher sends a read with a bearer key: authenticatePublisher.
SubmitRead(p) ==
  /\ Free(p)
  /\ env.requests > 0
  /\ env' = [env EXCEPT !.requests = @ - 1]
  /\ \E cred \in Credentials(env.name), q \in Queries(env.name) :
       /\ cred.scheme = "bearer"
       /\ LET a == authenticatePublisher(cred, NoBody)
              r == [NewReq("read", NoKey, NoBody, "read") EXCEPT
                      !.cred = cred,
                      !.credSeen = CredentialState(cred, NoBody),
                      !.publisher = a.publisher,
                      !.query = q]
          IN req' = [req EXCEPT ![p] =
                       IF a.code = 200 THEN r ELSE Ended(r, "done", ErrorResp(a.code, a.error))]
  /\ UNCHANGED <<receipts, cache, wallets, ledger, billing, rollups, scans, now, firstAccepted, publishers, metric, users>>

\* GET /events/:receiptId with the ownership check left out.
OwnsReceiptAlways(pub, i) == TRUE

\* GET /events/:receiptId: receipt.publisherId !== req.publisher.publisherId.
OwnsReceipt(pub, i) == receipts[i].publisherId = pub

\* GET /events: the filter, publisherId and the optional event_type.
ListFilter(pub, q) ==
  {i \in DOMAIN receipts : /\ receipts[i].publisherId = pub
                           /\ q.type \in {"any", receipts[i].eventType}}

\* Both read routes, each one query of the receipts.
ReadEvents(p) ==
  /\ req[p].kind = "read" /\ req[p].pc = "read"
  /\ LET q == req[p].query
     IN IF q.op = "list"
          THEN req' = [req EXCEPT ![p] = [Ended(req[p], "done", ErrorResp(200, "ok")) EXCEPT
                                            !.returned = ListFilter(req[p].publisher, q)]]
        ELSE IF q.id \notin DOMAIN receipts
          THEN Done(p, ErrorResp(404, "not_found"))
        ELSE IF ~OwnsReceipt(req[p].publisher, q.id)
          THEN Done(p, ErrorResp(403, "forbidden"))
        ELSE req' = [req EXCEPT ![p] = [Ended(req[p], "done", ErrorResp(200, "ok")) EXCEPT
                                          !.returned = {q.id}]]
  /\ UNCHANGED <<receipts, cache, wallets, ledger, billing, rollups, scans, now, env, firstAccepted, publishers, metric, users>>

\* ------------------------------------------------- /v1/admin/publishers

\* PATCH /admin/publishers/:publisherId/status, and DELETE without hard_delete.
SetStatus(pub, status) ==
  /\ env.adminOps > 0
  /\ status # publishers[pub].status
  /\ env' = [env EXCEPT !.adminOps = @ - 1]
  /\ publishers' = [publishers EXCEPT ![pub].status = status]
  /\ UNCHANGED <<receipts, cache, wallets, ledger, billing, rollups, scans, req, now, firstAccepted, metric, users>>

\* POST /admin/publishers/:publisherId/regenerate-key.
RegenerateKey(pub) ==
  /\ env.adminOps > 0
  /\ env' = [env EXCEPT !.adminOps = @ - 1]
  /\ publishers' = [publishers EXCEPT ![pub].apiKey = ApiKey(pub, @.gen + 1)]
  /\ UNCHANGED <<receipts, cache, wallets, ledger, billing, rollups, scans, req, now, firstAccepted, metric, users>>

\* ------------------------------------------------- POST /api/wallet/deposit

\* The advertiser sends a deposit; an amount that is not positive is refused.
SubmitDeposit(p, a, amount) ==
  /\ Free(p)
  /\ env.ledgerOps > 0
  /\ env' = [env EXCEPT !.ledgerOps = @ - 1]
  /\ req' = [req EXCEPT ![p] =
       IF amount <= 0
         THEN [NewReq("deposit", NoKey, NoBody, "done") EXCEPT
                 !.amount = amount, !.resp = ErrorResp(400, "Invalid amount")]
         ELSE [NewReq("deposit", NoKey, NoBody, "depositWallet") EXCEPT
                 !.amount = amount, !.adv = a]]
  /\ UNCHANGED <<receipts, cache, wallets, ledger, billing, rollups, scans, now, firstAccepted, publishers, metric, users>>

\* getOrCreateWallet in the session: the transaction's snapshot.
DepositWallet(p) ==
  /\ req[p].kind = "deposit" /\ req[p].pc = "depositWallet"
  /\ LET w == wallets[req[p].adv]
     IN req' = [req EXCEPT ![p].snapBal = IF w.exists THEN w.balance ELSE 0,
                           ![p].snapWVer = w.ver, ![p].pc = "depositWrite"]
  /\ UNCHANGED <<receipts, cache, wallets, ledger, billing, rollups, scans, now, env, firstAccepted, publishers, metric, users>>

WalletConflict(p) ==
  \/ wallets[req[p].adv].ver # req[p].snapWVer
  \/ \E q \in Procs \ {p} : req[q].pc \in {"billCommit", "depositCommit", "notifyCommit"}
                            /\ req[q].adv = req[p].adv

\* wallet.save and WalletTransaction.create in the session.
DepositWrite(p) ==
  /\ req[p].kind = "deposit" /\ req[p].pc = "depositWrite"
  /\ IF WalletConflict(p)
       THEN Done(p, ErrorResp(500, "Failed to deposit funds"))
       ELSE Goto(p, "depositCommit")
  /\ UNCHANGED <<receipts, cache, wallets, ledger, billing, rollups, scans, now, env, firstAccepted, publishers, metric, users>>

CreditedBalance(before, amount) == before + amount

DepositTransaction(r) ==
  [wallet |-> r.adv, type |-> "deposit", amount |-> r.amount,
   balanceBefore |-> r.snapBal, balanceAfter |-> CreditedBalance(r.snapBal, r.amount),
   referenceId |-> 0, referenceType |-> "none"]

DepositCommit(p) ==
  /\ req[p].kind = "deposit" /\ req[p].pc = "depositCommit"
  /\ wallets' = [wallets EXCEPT ![req[p].adv] =
                   [exists |-> TRUE,
                    balance |-> CreditedBalance(req[p].snapBal, req[p].amount),
                    ver |-> @.ver + 1]]
  /\ ledger' = Append(ledger, DepositTransaction(req[p]))
  /\ Done(p, Resp(200, "success", 0, 0, 0))
  /\ UNCHANGED <<receipts, cache, billing, rollups, scans, now, env, firstAccepted, publishers, metric, users>>

\* ----------------------------------------------- POST /api/conversion/notify

SubmitNotify(p, s) ==
  /\ Free(p)
  /\ env.ledgerOps > 0
  /\ env' = [env EXCEPT !.ledgerOps = @ - 1]
  /\ req' = [req EXCEPT ![p] = [NewReq("notify", NoKey, NoBody, "notifyFind") EXCEPT !.scan = s]]
  /\ UNCHANGED <<receipts, cache, wallets, ledger, billing, rollups, scans, now, firstAccepted, publishers, metric, users>>

\* Scan.findById: a scan already converted is answered at once.
NotifyFind(p) ==
  /\ req[p].kind = "notify" /\ req[p].pc = "notifyFind"
  /\ IF scans[req[p].scan].conversion
       THEN Done(p, Resp(200, "Conversion already processed", 0, 0, 0))
       ELSE req' = [req EXCEPT ![p].pc = "notifyWallet", ![p].adv = ScanAdvertiser(req[p].scan)]
  /\ UNCHANGED <<receipts, cache, wallets, ledger, billing, rollups, scans, now, env, firstAccepted, publishers, metric, users>>

\* conversionFee = scan.conversionFee || qrCode?.conversionFee || 0
NotifyFee(s) == QrCodeFindOne(ScanQrId(s)).conversionFee

NotifyShare(s) == QrCodeFindOne(ScanQrId(s)).publisherShare

\* getOrCreateWallet in the session (the snapshot) and the balance check.
NotifyWallet(p) ==
  /\ req[p].kind = "notify" /\ req[p].pc = "notifyWallet"
  /\ LET w == wallets[req[p].adv]
         bal == IF w.exists THEN w.balance ELSE 0
     IN IF InsufficientFunds(bal, NotifyFee(req[p].scan))
          THEN Done(p, ErrorResp(400, "Insufficient wallet balance"))
          ELSE req' = [req EXCEPT ![p].snapBal = bal, ![p].snapWVer = w.ver,
                                  ![p].snapRVer = scans[req[p].scan].ver,
                                  ![p].pc = "notifyWrite"]
  /\ UNCHANGED <<receipts, cache, wallets, ledger, billing, rollups, scans, now, env, firstAccepted, publishers, metric, users>>

ScanConflict(p) ==
  \/ scans[req[p].scan].ver # req[p].snapRVer
  \/ \E q \in Procs \ {p} : req[q].pc = "notifyCommit" /\ req[q].scan = req[p].scan

\* scan.save, wallet.save and the two creates in the session.
NotifyWrite(p) ==
  /\ req[p].kind = "notify" /\ req[p].pc = "notifyWrite"
  /\ IF ScanConflict(p) \/ WalletConflict(p)
       THEN Done(p, ErrorResp(500, "Failed to process conversion"))
       ELSE Goto(p, "notifyCommit")
  /\ UNCHANGED <<receipts, cache, wallets, ledger, billing, rollups, scans, now, env, firstAccepted, publishers, metric, users>>

NotifyTransaction(r) ==
  [wallet |-> r.adv, type |-> "conversion_fee", amount |-> 0 - NotifyFee(r.scan),
   balanceBefore |-> r.snapBal, balanceAfter |-> DebitedBalance(r.snapBal, NotifyFee(r.scan)),
   referenceId |-> r.scan, referenceType |-> "scan"]

NotifyRecord(r) ==
  [user |-> r.adv, scan |-> r.scan, referenceType |-> "scan",
   conversionFee |-> NotifyFee(r.scan), publisherShare |-> NotifyShare(r.scan),
   ipauseCut |-> IpauseCut(NotifyFee(r.scan), NotifyShare(r.scan))]

\* The commit.  No legacy PauseEvent is linked to the scan, so the update
\* after the commit finds nothing.
NotifyCommit(p) ==
  /\ req[p].kind = "notify" /\ req[p].pc = "notifyCommit"
  /\ scans' = [scans EXCEPT ![req[p].scan].conversion = TRUE, ![req[p].scan].ver = @ + 1]
  /\ wallets' = [wallets EXCEPT ![req[p].adv] =
                   [exists |-> TRUE,
                    balance |-> DebitedBalance(req[p].snapBal, NotifyFee(req[p].scan)),
                    ver |-> @.ver + 1]]
  /\ ledger' = Append(ledger, NotifyTransaction(req[p]))
  /\ billing' = Append(billing, NotifyRecord(req[p]))
  /\ Done(p, Resp(200, "success", 0, 0, 0))
  /\ UNCHANGED <<receipts, cache, rollups, now, env, firstAccepted, publishers, metric, users>>

\* ------------------------------------------------------------------- clock

Tick ==
  /\ env.ticks > 0
  /\ env' = [env EXCEPT !.ticks = @ - 1]
  /\ now' = now + 1
  /\ UNCHANGED <<receipts, cache, wallets, ledger, billing, rollups, scans, req, firstAccepted, publishers, metric, users>>

\* The TTL index of IdempotencyCache.expiresAt deletes the expired entries.
Reap ==
  /\ \E c \in cache : c.expiresAt <= nowHours
  /\ cache' = {c \in cache : c.expiresAt > nowHours}
  /\ UNCHANGED <<receipts, wallets, ledger, billing, rollups, scans, req, now, env, firstAccepted, publishers, metric, users>>

\* ------------------------------------------------------------------ faults

\* A database call of the request throws.  In the handlers the catch answers
\* 500; in processBilling the catch aborts the transaction and returns; in
\* updateA2ARMetrics the catch logs and returns.
Fail(p) ==
  /\ req[p].kind = "event" /\ InFlight(p)
  /\ env.faults > 0
  /\ env' = [env EXCEPT !.faults = @ - 1]
  /\ LET r == [req[p] EXCEPT !.fault = TRUE]
     IN req' = [req EXCEPT ![p] =
          IF r.pc = "guard" THEN Ended(r, "done", ErrorResp(500, "idempotency_check_failed"))
          ELSE IF r.pc \in {"billWallet", "billNonBillable", "billWrite", "billCommit"}
            THEN [r EXCEPT !.pc = "rollup"]
          ELSE IF r.pc = "rollup" THEN [r EXCEPT !.pc = "cache"]
          ELSE Ended(r, "done", ErrorResp(500, "processing_failed"))]
  /\ UNCHANGED <<receipts, cache, wallets, ledger, billing, rollups, scans, now, firstAccepted, publishers, metric, users>>

\* The process dies: the request is never answered, its open transaction never commits.
Crash(p) ==
  /\ InFlight(p)
  /\ env.faults > 0
  /\ env' = [env EXCEPT !.faults = @ - 1]
  /\ req' = [req EXCEPT ![p] = [Ended(req[p], "crashed", NoResp) EXCEPT
                                  !.fault = TRUE, !.diedAt = req[p].pc]]
  /\ UNCHANGED <<receipts, cache, wallets, ledger, billing, rollups, scans, now, firstAccepted, publishers, metric, users>>

\* -------------------------------------------------------------------- next

Next ==
  \/ \E p \in Procs : Submit(p)
  \/ \E p \in Procs : SubmitRead(p)
  \/ \E p \in Procs : ReadEvents(p)
  \/ \E pub \in Publishers, status \in {"active", "suspended", "revoked"} : SetStatus(pub, status)
  \/ \E pub \in Publishers : RegenerateKey(pub)
  \/ \E p \in Procs : CheckIdempotency(p)
  \/ \E p \in Procs : FindExisting(p)
  \/ \E p \in Procs : MatchPause(p)
  \/ \E p \in Procs : CreateReceipt(p)
  \/ \E p \in Procs : LinkPause(p)
  \/ \E p \in Procs : BillWallet(p)
  \/ \E p \in Procs : BillNonBillable(p)
  \/ \E p \in Procs : BillWrite(p)
  \/ \E p \in Procs : BillCommit(p)
  \/ \E p \in Procs : UpdateRollup(p)
  \/ \E p \in Procs : CacheResponse(p)
  \/ \E p \in Procs, a \in Advertisers, m \in DepositAmounts : SubmitDeposit(p, a, m)
  \/ \E p \in Procs : DepositWallet(p)
  \/ \E p \in Procs : DepositWrite(p)
  \/ \E p \in Procs : DepositCommit(p)
  \/ \E p \in Procs, s \in ScanIds : SubmitNotify(p, s)
  \/ \E p \in Procs : NotifyFind(p)
  \/ \E p \in Procs : NotifyWallet(p)
  \/ \E p \in Procs : NotifyWrite(p)
  \/ \E p \in Procs : NotifyCommit(p)
  \/ \E p \in Procs : Fail(p)
  \/ \E p \in Procs : Crash(p)
  \/ Tick
  \/ Reap

Spec == Init /\ [][Next]_vars

\* ------------------------------------------------ attention metrics (A2AR, ASV, ACI)

MaxTier == 5

AppearTimes == {NoTime, 0, 2000}
ScanTimes == {NoTime} \cup {sec * 1000 + ms : sec \in 0..MaxSeconds, ms \in {0, 1}}
OpportunityCounts == {0, 1, 125, 200, 500, 1000}
ConversionCounts == 0..MaxConversions
Tiers == 0..MaxTier

Result(tier, value) == [tier |-> tier, value |-> value]

\* Math.round(x * 100) / 100 of x = n / d, in hundredths.
Round2(n, d) == (2 * 100 * n + d) \div (2 * d)

\* A2ARMetric.calculateASV: asvSeconds = (scanned - appeared) / 1000.
calculateASV(qrAppearedAt, qrScannedAt) ==
  IF qrAppearedAt = NoTime \/ qrScannedAt = NoTime
    THEN Result(0, 0)
    ELSE LET ms == qrScannedAt - qrAppearedAt
         IN Result(IF ms > 40 * 1000 THEN 1
                   ELSE IF ms > 20 * 1000 THEN 2
                   ELSE IF ms > 10 * 1000 THEN 3
                   ELSE IF ms > 5 * 1000 THEN 4
                   ELSE IF ms >= 0 THEN 5
                   ELSE 0,
                   Round2(ms, 1000))

\* calcASV of routes/billing.js.
calcASV(qrAppearTime, scanTime) ==
  IF qrAppearTime = NoTime \/ scanTime = NoTime
    THEN Result(0, 0)
    ELSE LET ms == scanTime - qrAppearTime
         IN Result(IF ms <= 0 THEN 0
                   ELSE IF ms > 40 * 1000 THEN 1
                   ELSE IF ms > 20 * 1000 THEN 2
                   ELSE IF ms > 10 * 1000 THEN 3
                   ELSE IF ms > 5 * 1000 THEN 4
                   ELSE 5,
                   Round2(ms, 1000))

\* getA2ARTier with every gap closed downwards: a rate on a boundary falls
\* into the tier below it.
getA2ARTierBoundaryBelow(conversions, pauseOps) ==
  LET tenths == conversions * 1000
  IN IF tenths <= 5 * pauseOps THEN 1
     ELSE IF tenths <= 8 * pauseOps THEN 2
     ELSE IF tenths <= 16 * pauseOps THEN 3
     ELSE IF tenths <= 26 * pauseOps THEN 4
     ELSE 5

\* A2ARMetric.getA2ARTier of a2ar = (conversions / pauseOps) * 100: the chain
\* of comparisons of the source, each a2ar < t / 10 as
\* conversions * 1000 < t * pauseOps.
getA2ARTier(conversions, pauseOps) ==
  LET tenths == conversions * 1000
  IN IF tenths < 2 * pauseOps THEN 1
     ELSE IF tenths <= 4 * pauseOps THEN 1
     ELSE IF tenths < 5 * pauseOps THEN 1
     ELSE IF tenths <= 7 * pauseOps THEN 2
     ELSE IF tenths < 8 * pauseOps THEN 2
     ELSE IF tenths <= 15 * pauseOps THEN 3
     ELSE IF tenths < 16 * pauseOps THEN 3
     ELSE IF tenths <= 25 * pauseOps THEN 4
     ELSE IF tenths < 26 * pauseOps THEN 4
     ELSE 5

\* A2ARMetric.updateMetrics, the rate of the rollup it has just incremented:
\* pauseOps = metric.pauseOpportunities || 1.
updateMetricsA2AR(pauseOpportunities, verifiedConversions) ==
  LET pauseOps == IF pauseOpportunities = 0 THEN 1 ELSE pauseOpportunities
  IN Result(getA2ARTier(verifiedConversions, pauseOps),
            Round2(verifiedConversions * 100, pauseOps))

\* A2ARMetric.getSummary over rollups that sum to these totals.
getSummaryA2AR(pauseOpportunities, verifiedConversions) ==
  LET pauseOps == IF pauseOpportunities = 0 THEN 1 ELSE pauseOpportunities
  IN Result(getA2ARTier(verifiedConversions, pauseOps),
            Round2(verifiedConversions * 100, pauseOps))

\* calcA2AR of routes/billing.js.
calcA2AR(pause_opportunities, qr_downloads) ==
  IF pause_opportunities <= 0
    THEN Result(0, 0)
    ELSE LET tenths == qr_downloads * 1000
         IN Result(IF tenths < 2 * pause_opportunities THEN 1
                   ELSE IF tenths <= 4 * pause_opportunities THEN 1
                   ELSE IF tenths < 5 * pause_opportunities THEN 1
                   ELSE IF tenths <= 7 * pause_opportunities THEN 2
                   ELSE IF tenths < 8 * pause_opportunities THEN 2
                   ELSE IF tenths <= 15 * pause_opportunities THEN 3
                   ELSE IF tenths < 16 * pause_opportunities THEN 3
                   ELSE IF tenths <= 25 * pause_opportunities THEN 4
                   ELSE IF tenths < 26 * pause_opportunities THEN 4
                   ELSE 5,
                   Round2(qr_downloads * 100, pause_opportunities))

\* calculateACI with the levels read off the raw index, not the scaled one.
calculateACIUnscaled(a2arTier, asvTier) ==
  IF a2arTier = 0 \/ asvTier = 0
    THEN Result(0, 0)
    ELSE LET sum == a2arTier + asvTier
         IN Result(IF sum >= 2 * 9 THEN 5
                   ELSE IF sum >= 2 * 8 THEN 4
                   ELSE IF sum >= 2 * 6 THEN 3
                   ELSE IF sum >= 2 * 4 THEN 2
                   ELSE IF sum >= 2 * 2 THEN 1
                   ELSE 0,
                   100 * sum)

\* A2ARMetric.calculateACI: scaledACI = ((a2arTier + asvTier) / 2) * 2.
calculateACI(a2arTier, asvTier) ==
  IF a2arTier = 0 \/ asvTier = 0
    THEN Result(0, 0)
    ELSE LET scaledACI == a2arTier + asvTier
         IN Result(IF scaledACI >= 9 THEN 5
                   ELSE IF scaledACI >= 8 THEN 4
                   ELSE IF scaledACI >= 6 THEN 3
                   ELSE IF scaledACI >= 4 THEN 2
                   ELSE IF scaledACI >= 2 THEN 1
                   ELSE 0,
                   100 * scaledACI)

\* calcACI of routes/billing.js.
calcACI(A2AR_Tier, ASV_Tier) ==
  IF A2AR_Tier = 0 \/ ASV_Tier = 0
    THEN Result(0, 0)
    ELSE LET scaled_ACI == A2AR_Tier + ASV_Tier
         IN Result(IF scaled_ACI >= 9 /\ scaled_ACI <= 10 THEN 5
                   ELSE IF scaled_ACI >= 8 /\ scaled_ACI < 9 THEN 4
                   ELSE IF scaled_ACI >= 6 /\ scaled_ACI < 8 THEN 3
                   ELSE IF scaled_ACI >= 4 /\ scaled_ACI < 6 THEN 2
                   ELSE IF scaled_ACI >= 2 /\ scaled_ACI < 4 THEN 1
                   ELSE 0,
                   100 * scaled_ACI)

\* The calls the calculators are checked on.
MetricInputs ==
  {Call(fn, a, t) : fn \in {"calculateASV", "calcASV"}, a \in AppearTimes, t \in ScanTimes}
    \cup {Call(fn, o, c) : fn \in {"updateMetrics", "getSummary", "calcA2AR"},
                           o \in OpportunityCounts, c \in ConversionCounts}
    \cup {Call(fn, a, v) : fn \in {"calculateACI", "calcACI"}, a \in Tiers, v \in Tiers}

\* No request is sent while the calculators are checked.
Calculating ==
  [name |-> "metrics", requests |-> 0, ticks |-> 0, faults |-> 0, ledgerOps |-> 0, adminOps |-> 0]

InitMetrics ==
  /\ Store
  /\ env = Calculating
  /\ metric \in MetricInputs

Return(fn, r) ==
  /\ metric.fn = fn /\ ~metric.done
  /\ metric' = [metric EXCEPT !.done = TRUE, !.tier = r.tier, !.value = r.value]
  /\ UNCHANGED <<receipts, cache, wallets, ledger, billing, rollups, scans, req, now,
                 env, firstAccepted, publishers, users>>

CalculateASV == Return("calculateASV", calculateASV(metric.x, metric.y))
CalcASV == Return("calcASV", calcASV(metric.x, metric.y))
UpdateMetrics == Return("updateMetrics", updateMetricsA2AR(metric.x, metric.y))
GetSummary == Return("getSummary", getSummaryA2AR(metric.x, metric.y))
CalcA2AR == Return("calcA2AR", calcA2AR(metric.x, metric.y))
CalculateACI == Return("calculateACI", calculateACI(metric.x, metric.y))
CalcACI == Return("calcACI", calcACI(metric.x, metric.y))

NextMetrics ==
  \/ CalculateASV
  \/ CalcASV
  \/ UpdateMetrics
  \/ GetSummary
  \/ CalcA2AR
  \/ CalculateACI
  \/ CalcACI

SpecMetrics == InitMetrics /\ [][NextMetrics]_vars

\* ------------------------------------------------- A2ARMetric.updateMetrics

\* Seconds are kept in hundredths; NoSeconds is null.
NoSeconds == -100000

\* Date.now(), in milliseconds.
DateNow == 100000

\* The milliseconds that pass between Date.now() and new Date().
ClockJitter == {0, 1}

\* asvSeconds of a conversion: none (the impression had no qrAppearedAt), a
\* scan 3 s after the display, a scan 20 s before it.
AsvSamples == {NoSeconds, 300, -2000}

\* The arguments the handlers call updateMetrics with: an impression, or a
\* successful conversion with its asvSeconds.
UpdateArgs ==
  {[pauseOpportunity |-> TRUE, conversion |-> FALSE, asvSeconds |-> NoSeconds]}
    \cup {[pauseOpportunity |-> FALSE, conversion |-> TRUE, asvSeconds |-> v] : v \in AsvSamples}

\* The document an upsert inserts: the defaults of A2ARMetricSchema.
NewMetric ==
  [pauseOpportunities |-> 0, verifiedConversions |-> 0, a2arPercentage |-> 0, a2arTier |-> 0,
   averageAsvSeconds |-> NoSeconds, asvTier |-> 0, aciLevel |-> 0]

\* Math.round(newAvg * 100) / 100 of the running average.
runningAverage(currentAvg, currentCount, asvSeconds) ==
  IF currentCount = 1 THEN asvSeconds
  ELSE (2 * (currentAvg * (currentCount - 1) + asvSeconds) + currentCount) \div (2 * currentCount)

\* updateMetrics after its findOneAndUpdate: what it assigns to the document
\* it was handed, the second clock read `jitter` ms after the first.
Recalculated(m, asvSeconds, jitter) ==
  LET a2ar == updateMetricsA2AR(m.pauseOpportunities, m.verifiedConversions)
      currentAvg == IF m.averageAsvSeconds = NoSeconds THEN 0 ELSE m.averageAsvSeconds
      currentCount == IF m.verifiedConversions = 0 THEN 1 ELSE m.verifiedConversions
      newAvg == runningAverage(currentAvg, currentCount, asvSeconds)
      m1 == [m EXCEPT !.a2arPercentage = a2ar.value, !.a2arTier = a2ar.tier]
      m2 == IF asvSeconds # NoSeconds
              THEN [m1 EXCEPT !.averageAsvSeconds = newAvg,
                              !.asvTier = calculateASV(DateNow - newAvg * 10, DateNow + jitter).tier]
              ELSE m1
  IN IF m2.a2arTier > 0 /\ m2.asvTier > 0
       THEN [m2 EXCEPT !.aciLevel = calculateACI(m2.a2arTier, m2.asvTier).tier]
       ELSE m2

\* metric.save(): the paths whose assigned value differs from the loaded one
\* are written by _id; the others keep what is stored.
Saved(loaded, assigned, stored) ==
  [f \in DOMAIN stored |-> IF assigned[f] # loaded[f] THEN assigned[f] ELSE stored[f]]

\* A call of updateMetrics between its two awaits: its arguments and the
\* document findOneAndUpdate returned.
UpdateCall(args, m) ==
  [kind |-> "updateMetrics", pc |-> "save", args |-> args, metric |-> m, adv |-> "none"]

\* Only updateMetrics is called.
Rolling ==
  [name |-> "rollup", requests |-> MaxUpdates, ticks |-> 0, faults |-> 0, ledgerOps |-> 0, adminOps |-> 0]

InitRollup ==
  /\ Collections
  /\ rollups = [a \in Advertisers |-> NewMetric]
  /\ env = Rolling
  /\ metric = NoMetric

\* findOneAndUpdate(filter, { $inc }, { upsert, new }): the counters are
\* incremented in the store and the document comes back as it then is.
FindOneAndUpdate(p) ==
  /\ Free(p)
  /\ env.requests > 0
  /\ env' = [env EXCEPT !.requests = @ - 1]
  /\ \E a \in Advertisers, args \in UpdateArgs :
       /\ rollups' = [rollups EXCEPT
            ![a].pauseOpportunities = @ + (IF args.pauseOpportunity THEN 1 ELSE 0),
            ![a].verifiedConversions = @ + (IF args.conversion THEN 1 ELSE 0)]
       /\ req' = [req EXCEPT ![p] = [UpdateCall(args, rollups'[a]) EXCEPT !.adv = a]]
  /\ UNCHANGED <<receipts, cache, wallets, ledger, billing, scans, now, firstAccepted, publishers, metric, users>>

\* The recalculation and metric.save(); the call returns.
SaveMetric(p) ==
  /\ req[p].kind = "updateMetrics" /\ req[p].pc = "save"
  /\ \E jitter \in ClockJitter :
       rollups' = [rollups EXCEPT ![req[p].adv] =
                     Saved(req[p].metric,
                           Recalculated(req[p].metric, req[p].args.asvSeconds, jitter), @)]
  /\ req' = [req EXCEPT ![p] = IdleReq]
  /\ UNCHANGED <<receipts, cache, wallets, ledger, billing, scans, now, env, firstAccepted, publishers, metric, users>>

NextRollup ==
  \/ \E p \in Procs : FindOneAndUpdate(p)
  \/ \E p \in Procs : SaveMetric(p)

SpecRollup == InitRollup /\ [][NextRollup]_vars

\* ------------------------------------------------------------- POST /login

nowMinutes == now * MinutesPerTick

\* The virtual isLocked of a User document.
isLocked(user) == user.lockUntil # NoTime /\ user.lockUntil > nowMinutes

\* user.incLoginAttempts(): the updateOne it builds from the loaded document
\* `this`, applied to the stored one.
incLoginAttempts(this, stored) ==
  IF this.lockUntil # NoTime /\ this.lockUntil < nowMinutes
    THEN [stored EXCEPT !.loginAttempts = 1, !.lockUntil = NoTime]
    ELSE [stored EXCEPT
            !.loginAttempts = @ + 1,
            !.lockUntil = IF this.loginAttempts + 1 >= maxAttempts /\ ~isLocked(this)
                            THEN nowMinutes + lockTime ELSE @]

resetLoginAttempts(stored) == [stored EXCEPT !.loginAttempts = 0, !.lockUntil = NoTime]

\* A login request: the email and whether the password is the account's, the
\* document findOne returned (gone when the request has ended), and the status
\* code of the answer.
LoginReq(email, password, user, pc, code) ==
  [kind |-> "login", pc |-> pc, email |-> email, password |-> password, user |-> user,
   code |-> code]

\* Only POST /login is called, and the clock ticks.
LoggingIn ==
  [name |-> "login", requests |-> MaxLogins, ticks |-> MaxTicks, faults |-> 0, ledgerOps |-> 0, adminOps |-> 0]

InitLogin ==
  /\ Store
  /\ env = LoggingIn
  /\ metric = NoMetric

\* POST /login up to bcrypt.compare: User.findOne, 401 for an unknown email,
\* 423 for a locked account, 403 for an inactive one.
Login(p) ==
  /\ Free(p)
  /\ env.requests > 0
  /\ env' = [env EXCEPT !.requests = @ - 1]
  /\ \E email \in Emails \cup {"unknown"}, password \in {"right", "wrong"} :
       LET user == IF email \in Emails THEN users[email] ELSE NewUser
           code == IF email \notin Emails THEN 401
                   ELSE IF isLocked(user) THEN 423
                   ELSE IF user.status = "inactive" THEN 403
                   ELSE 0
       IN req' = [req EXCEPT ![p] = IF code # 0 THEN LoginReq(email, password, NewUser, "done", code)
                                    ELSE LoginReq(email, password, user, "compare", 0)]
  /\ UNCHANGED <<receipts, cache, wallets, ledger, billing, rollups, scans, now, firstAccepted, publishers, metric, users>>

\* The password is wrong: user.incLoginAttempts() and 401.
IncLoginAttempts(p) ==
  /\ req[p].kind = "login" /\ req[p].pc = "compare" /\ req[p].password = "wrong"
  /\ users' = [users EXCEPT ![req[p].email] = incLoginAttempts(req[p].user, @)]
  /\ req' = [req EXCEPT ![p] = LoginReq(req[p].email, req[p].password, NewUser, "done", 401)]
  /\ UNCHANGED <<receipts, cache, wallets, ledger, billing, rollups, scans, now, env, firstAccepted, publishers, metric>>

\* The password is right: user.resetLoginAttempts() if the loaded document has
\* failed attempts or a lock.
ResetLoginAttempts(p) ==
  /\ req[p].kind = "login" /\ req[p].pc = "compare" /\ req[p].password = "right"
  /\ users' = IF req[p].user.loginAttempts > 0 \/ req[p].user.lockUntil # NoTime
                THEN [users EXCEPT ![req[p].email] = resetLoginAttempts(@)]
                ELSE users
  /\ req' = [req EXCEPT ![p].pc = "save"]
  /\ UNCHANGED <<receipts, cache, wallets, ledger, billing, rollups, scans, now, env, firstAccepted, publishers, metric>>

\* user.lastLogin = new Date(); user.save() writes the one modified path; the
\* token is signed and the answer is 200.
SaveLastLogin(p) ==
  /\ req[p].kind = "login" /\ req[p].pc = "save"
  /\ users' = [users EXCEPT ![req[p].email].lastLogin = nowMinutes]
  /\ req' = [req EXCEPT ![p] = LoginReq(req[p].email, req[p].password, NewUser, "done", 200)]
  /\ UNCHANGED <<receipts, cache, wallets, ledger, billing, rollups, scans, now, env, firstAccepted, publishers, metric>>

NextLogin ==
  \/ \E p \in Procs : Login(p)
  \/ \E p \in Procs : IncLoginAttempts(p)
  \/ \E p \in Procs : ResetLoginAttempts(p)
  \/ \E p \in Procs : SaveLastLogin(p)
  \/ Tick

SpecLogin == InitLogin /\ [][NextLogin]_vars

\* ------------------------------------------------------------------ claims

\* An event that authenticatePublisher let through has ended.
EventDone(p) == req[p].kind = "event" /\ req[p].pc = "done" /\ req[p].publisher # "none"

ReceiptsOfKey(k) == {i \in DOMAIN receipts : receipts[i].idempotencyKey = k}

\* The request created a receipt: the first write of either handler, which
\* every other write of the request (link, billing, rollup, cache) follows.
SideEffects(p) == req[p].kind = "event" /\ req[p].receiptId # 0

\* Billing records and fee lines that refer to the receipts of an event id.
RecordsOfEvent(e) ==
  {j \in DOMAIN billing : billing[j].referenceType = "event_receipt"
                          /\ receipts[billing[j].scan].eventId = e}

FeeLinesOfEvent(e) ==
  {j \in DOMAIN ledger : ledger[j].referenceType = "event_receipt"
                         /\ receipts[ledger[j].referenceId].eventId = e}

RecordsOfReceipt(i) ==
  {j \in DOMAIN billing : billing[j].referenceType = "event_receipt" /\ billing[j].scan = i}

FeeLinesOfReceipt(i) ==
  {j \in DOMAIN ledger : ledger[j].referenceType = "event_receipt" /\ ledger[j].referenceId = i}

\* C1: a request sent with the key of a 200 accepted answer, after that answer
\* and before the entry's expiry, is answered with the same body, and exactly
\* one receipt holds the key.
C1_ReplayIsIdentical ==
  \A p \in Procs :
    (EventDone(p) /\ ~req[p].fault /\ req[p].keySeen = "live" /\ KeyState(req[p].key) = "live")
      => /\ req[p].resp = firstAccepted[req[p].key]
         /\ Cardinality(ReceiptsOfKey(req[p].key)) = 1

\* A replay of an accepted conversion has been answered from the cache.
C1_Witness ==
  \E p \in Procs :
    /\ EventDone(p) /\ req[p].keySeen = "live" /\ req[p].hit
    /\ req[p].resp.status = "accepted" /\ req[p].resp.matched_pause_id # 0

\* C2: of two requests that carry the same Idempotency-Key, whatever their
\* interleaving, at most one creates a receipt, links, bills or counts; the
\* store never holds two receipts of one key.
C2_OneExecutesPerKey ==
  /\ \A p, q \in Procs :
       (p # q /\ req[p].key # NoKey /\ req[p].key = req[q].key)
         => ~(SideEffects(p) /\ SideEffects(q))
  /\ \A k \in Keys : Cardinality(ReceiptsOfKey(k)) <= 1

\* Two requests with one key and different events passed the guard together;
\* one created its receipt and is still running, the other was answered 500.
C2_Witness ==
  \E p, q \in Procs :
    /\ p # q /\ req[p].key = req[q].key /\ req[p].kind = "event"
    /\ req[p].body.eventId # req[q].body.eventId
    /\ InFlight(p) /\ SideEffects(p)
    /\ EventDone(q) /\ ~req[q].hit /\ ~req[q].fault /\ req[q].resp.code = 500

\* C3: a conversion event is billed at most once: the receipts of one event id
\* are referenced by at most one Billing Record and one conversion_fee line,
\* and so is each receipt.
C3_BilledAtMostOnce ==
  /\ \A i \in DOMAIN receipts :
       /\ Cardinality(RecordsOfReceipt(i)) <= 1
       /\ Cardinality(FeeLinesOfReceipt(i)) <= 1
  /\ \A i \in DOMAIN receipts :
       /\ Cardinality(RecordsOfEvent(receipts[i].eventId)) <= 1
       /\ Cardinality(FeeLinesOfEvent(receipts[i].eventId)) <= 1

\* A billed conversion has been sent again and answered without a second bill.
C3_Witness ==
  \E p \in Procs :
    /\ EventDone(p) /\ req[p].evSeen /\ req[p].body.type = "qr_conversion"
    /\ req[p].resp.code = 200
    /\ Cardinality(RecordsOfEvent(req[p].body.eventId)) = 1
    /\ Cardinality(FeeLinesOfEvent(req[p].body.eventId)) = 1

\* C4: no wallet balance is ever negative, under any interleaving of deposits,
\* v1 conversions and legacy conversion notifications.
C4_BalanceNeverNegative ==
  \A a \in Advertisers : wallets[a].balance >= 0

\* Two conversions read a wallet that covers one fee; one has committed its
\* debit, the other still holds the balance it read.
C4_Witness ==
  \E p \in Procs, a \in Advertisers :
    /\ req[p].kind = "event" /\ req[p].pc = "billWrite" /\ req[p].adv = a
    /\ req[p].snapBal = DefaultConversionFee
    /\ wallets[a].balance = 0
    /\ \E j \in DOMAIN ledger : ledger[j].wallet = a /\ ledger[j].referenceType = "event_receipt"

RECURSIVE SumOfAmounts(_, _)
SumOfAmounts(a, n) ==
  IF n = 0 THEN 0
  ELSE SumOfAmounts(a, n - 1) + (IF ledger[n].wallet = a THEN ledger[n].amount ELSE 0)

\* C5: every Wallet Transaction has balanceAfter = balanceBefore + amount, and
\* the amounts of a wallet's transactions add up to its balance.
C5_LedgerMatchesBalance ==
  /\ \A j \in DOMAIN ledger : ledger[j].balanceAfter = ledger[j].balanceBefore + ledger[j].amount
  /\ \A a \in Advertisers : SumOfAmounts(a, Len(ledger)) = wallets[a].balance

\* A wallet was funded by a deposit and emptied by a conversion fee, and a
\* later conversion or notification has been answered.
C5_Witness ==
  \E a \in Advertisers :
    /\ \E j \in DOMAIN ledger : ledger[j].wallet = a /\ ledger[j].type = "deposit"
    /\ \E j \in DOMAIN ledger : ledger[j].wallet = a /\ ledger[j].type = "conversion_fee"
    /\ wallets[a].balance = 0
    /\ \E p \in Procs : req[p].pc = "done" /\ req[p].kind \in {"notify", "event"}
                        /\ req[p].resp.code \in {200, 400}

FeeLineAdded ==
  /\ Len(ledger') = Len(ledger) + 1
  /\ ledger'[Len(ledger')].referenceType = "event_receipt"

FeeRecordAdded ==
  /\ Len(billing') = Len(billing) + 1
  /\ billing'[Len(billing')].referenceType = "event_receipt"

BecameBilled ==
  \E i \in DOMAIN receipts :
    receipts[i].billingStatus # "billed" /\ receipts'[i].billingStatus = "billed"

\* A step of processBilling took money from a wallet.
BillingDebit ==
  \E p \in Procs, a \in Advertisers :
    /\ req[p].kind = "event" /\ req[p].pc \in {"billWallet", "billNonBillable", "billWrite", "billCommit"}
    /\ req'[p] # req[p]
    /\ wallets'[a].balance < wallets[a].balance

\* C6: the debit, the Wallet Transaction, the Billing Record and the receipt's
\* transition to billed of one processBilling become visible in one step or
\* not at all: a step that shows one of them shows all four.
C6_BillingAllOrNothing ==
  [][/\ FeeLineAdded <=> FeeRecordAdded
     /\ FeeLineAdded <=> BillingDebit
     /\ BecameBilled => FeeLineAdded
     /\ FeeLineAdded =>
          LET t == ledger'[Len(ledger')]
              b == billing'[Len(billing')]
              c == t.referenceId
          IN /\ b.scan = c /\ t.amount = 0 - b.conversionFee
             /\ wallets'[t.wallet].balance = wallets[t.wallet].balance + t.amount
             /\ receipts'[receipts[c].matchedPauseId].billingStatus = "billed"]_vars

\* A process died with the four writes made and the commit not: nothing of
\* them is in the store.
C6_Witness ==
  \E p \in Procs :
    /\ req[p].pc = "crashed" /\ req[p].diedAt = "billCommit"
    /\ FeeLinesOfReceipt(req[p].receiptId) = {}
    /\ RecordsOfReceipt(req[p].receiptId) = {}
    /\ receipts[req[p].pauseId].billingStatus # "billed"
    /\ \A a \in Advertisers : SumOfAmounts(a, Len(ledger)) = wallets[a].balance

\* A request that arrived when its event id had a receipt, passed the guard
\* and the validation, and met no database fault.
ReachedDuplicateCheck(p) ==
  /\ EventDone(p) /\ req[p].evSeen
  /\ ~req[p].hit /\ ~req[p].fault /\ req[p].key # NoKey /\ Validate(req[p].body) = "ok"

DuplicateAnswer(p) ==
  /\ req[p].resp.code = 200 /\ req[p].resp.status = "duplicate"
  /\ req[p].resp.receipt_id \in findByEventId(req[p].body.eventId)
  /\ req[p].receiptId = 0 /\ req[p].pauseId = 0

\* C7 as stated: at most one receipt per event_id, and every submission whose
\* event_id already has a receipt is answered 200 duplicate with the existing
\* receipt id.
C7_AsStated ==
  /\ \A i, j \in DOMAIN receipts : receipts[i].eventId = receipts[j].eventId => i = j
  /\ \A p \in Procs : (EventDone(p) /\ req[p].evSeen /\ ~req[p].fault) => DuplicateAnswer(p)

\* C7: at most one receipt exists per event_id; a valid submission whose
\* event_id already has a receipt and whose key has no unexpired cache entry is
\* answered 200 duplicate with the existing receipt id, and it creates no
\* receipt and reaches no later step.
C7_OneReceiptPerEvent ==
  /\ \A i, j \in DOMAIN receipts : receipts[i].eventId = receipts[j].eventId => i = j
  /\ \A p \in Procs : ReachedDuplicateCheck(p) => DuplicateAnswer(p)

\* An event id that has a receipt was sent again under another key and as
\* another event type, and was answered as a duplicate.
C7_Witness ==
  \E p \in Procs :
    /\ ReachedDuplicateCheck(p) /\ req[p].resp.status = "duplicate"
    /\ req[p].keySeen \in {"new", "used"}
    /\ receipts[req[p].resp.receipt_id].eventType # req[p].body.type

\* C8: the step of the guard on a request whose key has an unexpired cache
\* entry leaves receipts, rollups, wallets, ledger, billing records and cache
\* as they are and ends the request with the cached response, whatever the body.
C8_CachedKeyChangesNothing ==
  [][\A p \in Procs :
       (/\ req[p].kind = "event" /\ req[p].pc = "guard" /\ req'[p] # req[p]
        /\ checkDuplicate(req[p].key) # {})
         => /\ UNCHANGED <<receipts, cache, wallets, ledger, billing, rollups, scans>>
            /\ req'[p].pc \in {"done", "crashed"}
            /\ ~req'[p].fault =>
                 \E c \in checkDuplicate(req[p].key) : req'[p].resp = c.responsePayload]_vars

\* A request with an invalid body, and one with another event id than the
\* cached receipt's, were answered from the cache.
C8_Witness ==
  \E p \in Procs :
    /\ EventDone(p) /\ req[p].hit /\ req[p].resp.status = "accepted"
    /\ \/ Validate(req[p].body) # "ok"
       \/ receipts[req[p].resp.receipt_id].eventId # req[p].body.eventId

\* C9 as stated: a valid new event sent with a key whose cache entry has
\* expired ends with 200 accepted and a new receipt.
C9_ExpiredKeyIsFresh ==
  \A p \in Procs :
    (/\ EventDone(p) /\ req[p].keySeen = "expired" /\ ~req[p].fault
     /\ req[p].key # NoKey /\ Validate(req[p].body) = "ok" /\ ~req[p].evSeen
     /\ req[p].body.type = "qr_conversion" => req[p].impSeen # 0
     /\ \A i \in DOMAIN receipts : receipts[i].eventId = req[p].body.eventId => i = req[p].receiptId)
      => /\ req[p].resp.code = 200 /\ req[p].resp.status = "accepted"
         /\ req[p].receiptId # 0 /\ req[p].resp.receipt_id = req[p].receiptId

\* A conversion of an opportunity id that had an impression, sent with a new
\* event id and a never-used key, that met no fault and no concurrent request
\* of its event id or key.
FreshConversion(p) ==
  /\ EventDone(p) /\ req[p].body.type = "qr_conversion"
  /\ req[p].key # NoKey /\ Validate(req[p].body) = "ok"
  /\ req[p].impSeen # 0 /\ ~req[p].evSeen /\ req[p].keySeen = "new" /\ ~req[p].fault
  /\ \A i \in DOMAIN receipts :
       (receipts[i].eventId = req[p].body.eventId \/ receipts[i].idempotencyKey = req[p].key)
         => i = req[p].receiptId

\* C10: a conversion sent after an impression of its opportunity id, with a
\* new event id and a new key, is accepted; its receipt's matchedPauseId is the
\* receipt id of an impression of that opportunity id, the one sent before it
\* or a later one, and the response's matched_pause_id is that id.
C10_ConversionMatchesImpression ==
  \A p \in Procs :
    FreshConversion(p) =>
      /\ req[p].resp.code = 200 /\ req[p].resp.status = "accepted"
      /\ req[p].receiptId # 0 /\ req[p].resp.receipt_id = req[p].receiptId
      /\ LET m == receipts[req[p].receiptId].matchedPauseId
         IN /\ req[p].resp.matched_pause_id = m
            /\ m \in ImpressionsOf(req[p].body.opp)
            /\ m >= req[p].impSeen
            /\ Cardinality(ImpressionsOf(req[p].body.opp)) = 1 => m = req[p].impSeen

\* A conversion was accepted when two impressions of its opportunity id had
\* receipts, and names the later one.
C10_Witness ==
  \E p \in Procs :
    /\ FreshConversion(p) /\ req[p].resp.status = "accepted"
    /\ Cardinality(ImpressionsOf(req[p].body.opp)) = 2
    /\ req[p].resp.matched_pause_id = req[p].impSeen
    /\ \E i \in ImpressionsOf(req[p].body.opp) : i < req[p].impSeen

\* The step of request p that ends it with the accepted answer.
Completes(p) ==
  /\ req[p].kind = "event" /\ req[p].pc = "cache"
  /\ req'[p].pc = "done" /\ req'[p].resp.status = "accepted"

ConversionsOf(m) ==
  {i \in DOMAIN receipts : receipts[i].eventType = "qr_conversion" /\ receipts[i].matchedPauseId = m}

\* C11: a conversion whose opportunity id has no stored impression is answered
\* 404 pause_not_found; it has stored no receipt, and its step leaves wallets,
\* Wallet Transactions, Billing Records and receipts as they are.
C11_UnmatchedConversion ==
  [][\A p \in Procs :
       (/\ req[p].kind = "event" /\ req[p].pc = "match" /\ req'[p] # req[p]
        /\ ImpressionsOf(req[p].body.opp) = {} /\ ~req'[p].fault)
         => /\ req'[p].pc = "done" /\ req'[p].resp = ErrorResp(404, "pause_not_found")
            /\ req'[p].receiptId = 0
            /\ UNCHANGED <<receipts, wallets, ledger, billing, rollups, cache>>]_vars

\* A conversion of an opportunity id nobody sent was refused while an
\* impression of another opportunity id had a receipt.
C11_Witness ==
  \E p \in Procs :
    /\ EventDone(p) /\ req[p].resp = ErrorResp(404, "pause_not_found")
    /\ ImpressionsOf(req[p].body.opp) = {}
    /\ \E i \in DOMAIN receipts : receipts[i].eventType = "pause_impression"

C14_BothReceiptsBilled ==
  [][FeeLineAdded =>
       LET c == ledger'[Len(ledger')].referenceId
       IN /\ receipts'[receipts[c].matchedPauseId].billingStatus = "billed"
          /\ receipts'[c].billingStatus = "billed"]_vars

\* C15: from the moment processBilling finds the wallet below the fee, the
\* request changes no wallet, Wallet Transaction or Billing Record, and it
\* ends with 200 accepted and nothing billed for its receipt.
C15_InsufficientFundsAccepted ==
  [][\A p \in Procs :
       (req[p].kind = "event" /\ InFlight(p) /\ req[p].funds = "short" /\ req'[p] # req[p])
         => /\ UNCHANGED <<wallets, ledger, billing>>
            /\ (req'[p].pc = "done" /\ ~req'[p].fault)
                 => /\ req'[p].resp.code = 200 /\ req'[p].resp.status = "accepted"
                    /\ req'[p].resp.receipt_id = req[p].receiptId
                    /\ FeeLinesOfReceipt(req[p].receiptId) = {}
                    /\ RecordsOfReceipt(req[p].receiptId) = {}]_vars

\* A conversion found a wallet emptied by an earlier fee and was accepted.
C15_Witness ==
  \E p \in Procs :
    /\ EventDone(p) /\ req[p].funds = "short" /\ req[p].resp.status = "accepted"
    /\ \E a \in Advertisers : wallets[a].exists /\ wallets[a].balance = 0 /\ Len(ledger) = 2
    /\ FeeLinesOfReceipt(req[p].receiptId) = {}

\* C16 as stated: a conversion that found the wallet below the fee ends with
\* its receipt's billing status non_billable.
C16_ConversionNonBillable ==
  \A p \in Procs :
    (EventDone(p) /\ req[p].funds = "short" /\ ~req[p].fault /\ req[p].resp.status = "accepted")
      => receipts[req[p].receiptId].billingStatus = "non_billable"

\* C17 as stated: a successful conversion matched to an impression whose
\* campaign id resolves to no QR code bills nothing, and both receipts keep
\* billing status pending.
C17_UnresolvedStaysPending ==
  \A p \in Procs :
    (/\ EventDone(p) /\ req[p].body.type = "qr_conversion" /\ ~req[p].hit /\ ~req[p].fault
     /\ req[p].resp.status = "accepted" /\ req[p].body.result = "success"
     /\ QrCodeFindOne(receipts[req[p].pauseId].campaignId) = NoQrCode)
      => /\ FeeLinesOfReceipt(req[p].receiptId) = {} /\ RecordsOfReceipt(req[p].receiptId) = {}
         /\ receipts[req[p].receiptId].billingStatus = "pending"
         /\ receipts[req[p].pauseId].billingStatus = "pending"

StatusTransitions ==
  {<<"pending", "billable">>, <<"pending", "non_billable">>,
   <<"billable", "billed">>, <<"non_billable", "billed">>}

\* C18 as stated: the billing status of a receipt changes only along
\* pending -> billable, pending -> non_billable and billable or non_billable
\* -> billed.
C18_StatusStateMachine ==
  [][\A i \in DOMAIN receipts :
       receipts'[i].billingStatus # receipts[i].billingStatus
         => <<receipts[i].billingStatus, receipts'[i].billingStatus>> \in StatusTransitions]_vars

\* C19 as stated: a valid submission with a key never used, that met no
\* database fault and no concurrent request of its key, has a receipt of its
\* event id when it has been answered.
C19_EveryValidEventStored ==
  \A p \in Procs :
    (/\ EventDone(p) /\ req[p].key # NoKey /\ Validate(req[p].body) = "ok"
     /\ ~req[p].fault /\ ~req[p].hit
     /\ req[p].keySeen = "new"
     /\ \A i \in DOMAIN receipts :
          receipts[i].idempotencyKey = req[p].key => receipts[i].eventId = req[p].body.eventId)
      => findByEventId(req[p].body.eventId) # {}

\* C20 as stated: a conversion retried with the same key and body after a
\* failed or interrupted attempt, and answered 200, leaves its receipt linked
\* both ways and, with the campaign resolved and the fee in the wallet, billed
\* exactly once.
C20_RetryCompletes ==
  \A p \in Procs :
    (/\ EventDone(p) /\ req[p].retry /\ ~req[p].fault
     /\ req[p].body.type = "qr_conversion" /\ req[p].resp.code = 200)
      => \E c \in findByEventId(req[p].body.eventId) :
           LET m == receipts[c].matchedPauseId
               q == QrCodeFindOne(receipts[m].campaignId)
           IN /\ m # 0
              /\ c \in {receipts[i].matchedConversionId : i \in ImpressionsOf(req[p].body.opp)}
              /\ Cardinality(FeeLinesOfReceipt(c)) <= 1
              /\ (q # NoQrCode /\ wallets[q.advertiser].balance >= Fee(q))
                   => Cardinality(FeeLinesOfReceipt(c)) = 1

\* C21: a conversion answered 404 pause_not_found has stored no receipt and no
\* cache entry (no cached response is a 404), and the same conversion, same
\* key and same event id, sent again once the impression is stored and with no
\* other request holding its key or event id, is processed past the guard,
\* accepted, and matched to an impression of its opportunity id.
C21_RefusedConversionRetries ==
  /\ \A c \in cache : c.responsePayload.code = 200
  /\ \A p \in Procs :
       EventDone(p) /\ ~req[p].fault /\ req[p].resp.code = 404
         => req[p].receiptId = 0 /\ req[p].resp.status = "pause_not_found"
  /\ \A p \in Procs :
       ( /\ EventDone(p) /\ req[p].refused /\ ~req[p].fault
         /\ req[p].impSeen # 0
         /\ \A i \in findByEventId(req[p].body.eventId) \cup ReceiptsOfKey(req[p].key) :
              i = req[p].receiptId )
       => /\ ~req[p].hit
          /\ req[p].resp.code = 200 /\ req[p].resp.status = "accepted"
          /\ req[p].receiptId \in DOMAIN receipts
          /\ req[p].resp.receipt_id = req[p].receiptId
          /\ receipts[req[p].receiptId].matchedPauseId = req[p].resp.matched_pause_id
          /\ req[p].resp.matched_pause_id \in ImpressionsOf(req[p].body.opp)

C21_Witness ==
  \E p \in Procs :
    /\ EventDone(p) /\ req[p].refused /\ ~req[p].hit
    /\ req[p].resp.status = "accepted"
    /\ req[p].receiptId \in DOMAIN receipts
    /\ receipts[req[p].receiptId].matchedPauseId \in ImpressionsOf(req[p].body.opp)

\* C22: a request passes authenticatePublisher only with the API key a
\* publisher holds now, or a fresh signature under its webhook secret, that
\* publisher being active; a request sent with a regenerated API key, or with
\* the credentials of a suspended or revoked publisher, is answered 401, runs no
\* handler, and the step that answers it changes no receipt, cache entry,
\* rollup, wallet, ledger line or billing record.
C22_OnlyCurrentCredentials ==
  /\ [](\A p \in Procs :
          req[p].kind \in {"event", "read"} =>
            /\ req[p].credSeen \in {"old", "inactive"} =>
                 /\ req[p].pc = "done" /\ req[p].resp.code = 401
                 /\ req[p].publisher = "none" /\ req[p].receiptId = 0
                 /\ req[p].returned = {}
            /\ req[p].publisher # "none" => req[p].credSeen = "current")
  /\ [][\A p \in Procs :
          req'[p] # req[p] /\ req'[p].credSeen \in {"old", "inactive"}
            => UNCHANGED <<receipts, cache, rollups, wallets, ledger, billing>>]_vars

C22_Witness ==
  \E p \in Procs :
    /\ req[p].kind = "event" /\ req[p].pc = "done"
    /\ req[p].credSeen = "old" /\ req[p].resp.code = 401
    /\ req[p].cred = FirstCredential
    /\ \E i \in DOMAIN receipts : receipts[i].publisherId = "pubA"

\* C23: the receipts a read returns all carry the publisher id of the
\* publisher that the read's API key belongs to, whatever receipt id or
\* event_type filter the read names.
C23_ReadsOwnReceiptsOnly ==
  \A p \in Procs :
    req[p].kind = "read" /\ req[p].pc = "done" =>
      \A i \in req[p].returned :
        /\ i \in DOMAIN receipts
        /\ receipts[i].publisherId = req[p].cred.apiKey.owner
        /\ receipts[i].publisherId = req[p].publisher

C23_Witness ==
  \E p \in Procs :
    /\ req[p].kind = "read" /\ req[p].pc = "done"
    /\ req[p].resp.code = 200 /\ req[p].returned # {}
    /\ \E i \in DOMAIN receipts : receipts[i].publisherId # req[p].publisher

\* C24: for every pair of timestamps, the tier calculateASV gives a matched
\* conversion is the tier of delta = scan time - QR-display time: 0 for
\* delta <= 0, 5 up to 5 s, 4 up to 10 s, 3 up to 20 s, 2 up to 40 s, 1 above.
AsvTierOfDelta(ms) ==
  IF ms <= 0 THEN 0
  ELSE IF ms <= 5000 THEN 5
  ELSE IF ms <= 10000 THEN 4
  ELSE IF ms <= 20000 THEN 3
  ELSE IF ms <= 40000 THEN 2
  ELSE 1

C24_AsvTierOfDelta ==
  metric.fn = "calculateASV" /\ metric.done /\ metric.x # NoTime /\ metric.y # NoTime
    => metric.tier = AsvTierOfDelta(metric.y - metric.x)

\* C25: for every pair (pause opportunities > 0, verified conversions), the
\* A2AR tier is the tier of rate = conversions / opportunities * 100: 1 below
\* 0.5, 2 from 0.5 and below 0.8, 3 from 0.8 and below 1.6, 4 from 1.6 and
\* below 2.6, 5 from 2.6.
A2arTierOfRate(conversions, opportunities) ==
  IF 200 * conversions < opportunities THEN 1
  ELSE IF 125 * conversions < opportunities THEN 2
  ELSE IF 125 * conversions < 2 * opportunities THEN 3
  ELSE IF 500 * conversions < 13 * opportunities THEN 4
  ELSE 5

C26_NoOpportunityIsLow ==
  metric.fn \in {"updateMetrics", "getSummary", "calcA2AR"} /\ metric.done /\ metric.x = 0
    => metric.tier = 1 /\ metric.value = 0

\* C27: for every pair of tiers in 0..5 the ACI level is 0 when either tier is
\* 0, and otherwise follows the sum of the tiers: 9 or 10 give 5, 8 gives 4,
\* 6 or 7 give 3, 4 or 5 give 2, 2 or 3 give 1.
AciLevelOfSum(sum) ==
  IF sum \in {9, 10} THEN 5
  ELSE IF sum = 8 THEN 4
  ELSE IF sum \in {6, 7} THEN 3
  ELSE IF sum \in {4, 5} THEN 2
  ELSE IF sum \in {2, 3} THEN 1
  ELSE 0

C27_AciLevelOfSum ==
  metric.fn \in {"calculateACI", "calcACI"} /\ metric.done
    => metric.tier = IF metric.x = 0 \/ metric.y = 0 THEN 0
                     ELSE AciLevelOfSum(metric.x + metric.y)

C27_Witness ==
  /\ metric.fn = "calculateACI" /\ metric.done
  /\ metric.x = 4 /\ metric.y = 4 /\ metric.tier = 4

\* C28: once every request has been answered, and no database call has
\* failed, the pauseOpportunities of all rollups add up to the number of
\* impression receipts and the verifiedConversions to the number of receipts
\* of successful conversions (those processBilling was called for).
RECURSIVE SumOfRollups(_, _)
SumOfRollups(S, field) ==
  IF S = {} THEN 0
  ELSE LET a == CHOOSE x \in S : TRUE
       IN rollups[a][field] + SumOfRollups(S \ {a}, field)

Quiet == \A p \in Procs : ~InFlight(p)

NoFaultYet == \A sc \in Scenarios : sc.name = env.name => sc.faults = env.faults

C28_RollupsCountEveryEvent ==
  Quiet /\ NoFaultYet =>
    /\ SumOfRollups(Advertisers, "pauseOpportunities")
         = Cardinality({i \in DOMAIN receipts : receipts[i].eventType = "pause_impression"})
    /\ SumOfRollups(Advertisers, "verifiedConversions")
         = Cardinality({i \in DOMAIN receipts : /\ receipts[i].eventType = "qr_conversion"
                                                /\ receipts[i].conversionResult = "success"})

\* A request that fails validation: no Idempotency-Key, an unknown event_type,
\* a required top-level field missing, or no opportunity id.
Invalid(r) ==
  \/ r.key = NoKey
  \/ r.body.type \notin {"pause_impression", "qr_conversion"}
  \/ ~r.body.complete
  \/ r.body.opp = NoOpp

\* C29 as stated: every request that fails validation is answered 400.
C29_AsStated ==
  \A p \in Procs :
    EventDone(p) /\ req[p].publisher # "none" /\ ~req[p].fault /\ Invalid(req[p])
      => req[p].resp.code = 400

\* C29: a request that fails validation is answered 400, unless it carries an
\* Idempotency-Key with an unexpired cache entry, which the guard answers with
\* the cached response before anything is validated; either way no step of the
\* request creates or changes a receipt, cache entry, rollup, wallet, ledger
\* line or billing record.
C29_InvalidChangesNothing ==
  /\ [](\A p \in Procs :
          EventDone(p) /\ req[p].publisher # "none" /\ ~req[p].fault /\ Invalid(req[p])
            => /\ req[p].receiptId = 0
               /\ IF req[p].hit
                    THEN /\ req[p].key # NoKey
                         /\ req[p].resp = firstAccepted[req[p].key]
                    ELSE /\ req[p].resp.code = 400
                         /\ req[p].resp.status \in {"missing_idempotency_key", "invalid_event_type",
                                                    "missing_required_fields", "missing_opportunity_id"})
  /\ [][\A p \in Procs :
          req'[p] # req[p] /\ req'[p].kind = "event" /\ Invalid(req'[p]) /\ ~req'[p].fault
            => UNCHANGED <<receipts, cache, rollups, wallets, ledger, billing>>]_vars

C29_Witness ==
  \E p \in Procs :
    /\ EventDone(p) /\ ~req[p].body.complete
    /\ req[p].resp = ErrorResp(400, "missing_required_fields")
    /\ receipts # <<>>

\* C30: the impression a conversion is matched to is, among the impressions of
\* its opportunity id stored when findMatchingPause runs, the one stored last
\* (no other has a greater processedAt or a later place in the collection), and
\* no step of the conversion changes any other impression receipt.
C30_LatestImpressionOnly ==
  /\ [][\A p \in Procs :
          req[p].kind = "event" /\ req[p].pc = "match" /\ req'[p].pc = "create"
            => /\ req'[p].pauseId \in ImpressionsOf(req[p].body.opp)
               /\ \A i \in ImpressionsOf(req[p].body.opp) :
                    /\ i <= req'[p].pauseId
                    /\ receipts[i].processedAt <= receipts[req'[p].pauseId].processedAt]_vars
  /\ [][\A p \in Procs :
          req[p].kind = "event" /\ req[p].body.type = "qr_conversion" /\ req'[p] # req[p]
            => \A i \in DOMAIN receipts :
                 receipts[i].eventType = "pause_impression" /\ i # req[p].pauseId
                   => receipts'[i] = receipts[i]]_vars

C30_Witness ==
  \E p \in Procs :
    /\ EventDone(p) /\ req[p].body.type = "qr_conversion"
    /\ req[p].resp.status = "accepted" /\ ~req[p].hit
    /\ req[p].resp.matched_pause_id = 2
    /\ ImpressionsOf(req[p].body.opp) = {1, 2}
    /\ receipts[2].matchedConversionId = req[p].receiptId
    /\ receipts[2].billingStatus # "pending"
    /\ receipts[1].matchedConversionId = 0
    /\ receipts[1].billingStatus = "pending"

\* The conversion_fee lines of the conversions matched to an impression.
FeeLinesOfImpression(i) ==
  {j \in DOMAIN ledger : /\ ledger[j].referenceType = "event_receipt"
                         /\ receipts[ledger[j].referenceId].matchedPauseId = i}

\* C32: at most one conversion is billed for an opportunity id: whatever
\* conversions, of distinct event ids and keys, are sent for the opportunity
\* of an impression receipt, the ledger holds at most one conversion_fee line
\* and the billing records at most one record for the conversions matched to it.
C32_OneDebitPerOpportunity ==
  \A i \in DOMAIN receipts :
    receipts[i].eventType = "pause_impression"
      => /\ Cardinality(FeeLinesOfImpression(i)) <= 1
         /\ Cardinality({j \in DOMAIN billing :
                           /\ billing[j].referenceType = "event_receipt"
                           /\ receipts[billing[j].scan].matchedPauseId = i}) <= 1

\* C33: a successful conversion that is answered 200 accepted, whose campaign
\* resolves to an advertiser and whose wallet held the fee when processBilling
\* read it and holds it still, has its conversion_fee line in the ledger when
\* the answer is sent, whatever else was writing the wallet meanwhile.
C33_AcceptedMeansDebited ==
  \A p \in Procs :
    ( /\ EventDone(p) /\ ~req[p].hit /\ ~req[p].fault
      /\ req[p].body.type = "qr_conversion" /\ req[p].body.result = "success"
      /\ req[p].resp.code = 200 /\ req[p].resp.status = "accepted"
      /\ req[p].funds \in {"enough", "conflict"}
      /\ \A a \in Advertisers : wallets[a].balance >= Fee(BillingQr(req[p])) )
      => FeeLinesOfReceipt(req[p].receiptId) # {}

\* C38: calculateASV of the A2ARMetric model and calcASV of routes/billing.js
\* return the same tier (the label is a function of the tier) for every pair
\* of timestamps, equal timestamps and a scan before the display included.
C38_AsvImplementationsAgree ==
  metric.fn \in {"calculateASV", "calcASV"} /\ metric.done
    => /\ metric.tier = calculateASV(metric.x, metric.y).tier
       /\ metric.tier = calcASV(metric.x, metric.y).tier

\* C34: the fee of every billed conversion is the conversionFee configured on
\* the campaign of the matched impression, and the publisherShare recorded is
\* the campaign's publisherShare, whatever values are configured, 0 included:
\* in the billing record and in the amount of the conversion_fee line.
C34_ConfiguredFeeAndShare ==
  /\ \A j \in DOMAIN billing :
       billing[j].referenceType = "event_receipt" =>
         LET q == QrCodeFindOne(receipts[receipts[billing[j].scan].matchedPauseId].campaignId)
         IN /\ billing[j].conversionFee = q.conversionFee
            /\ billing[j].publisherShare = q.publisherShare
  /\ \A j \in DOMAIN ledger :
       ledger[j].referenceType = "event_receipt" =>
         LET q == QrCodeFindOne(receipts[receipts[ledger[j].referenceId].matchedPauseId].campaignId)
         IN ledger[j].amount = 0 - q.conversionFee

\* C35: the publisherId of every receipt is the publisher that was
\* authenticated for the request that stored it, whatever publisher the body
\* of the request names.
C35_ReceiptOfAuthenticatedPublisher ==
  \A i \in DOMAIN receipts : receipts[i].publisherId = receipts[i].createdBy

\* C36: a conversion is matched only to an impression that the same publisher
\* submitted: the two receipts of every link, and of every conversion_fee line
\* through its conversion, were stored by requests of one publisher.
C36_MatchWithinPublisher ==
  /\ \A i \in DOMAIN receipts :
       /\ receipts[i].matchedPauseId # 0
            => receipts[receipts[i].matchedPauseId].createdBy = receipts[i].createdBy
       /\ receipts[i].matchedConversionId # 0
            => receipts[receipts[i].matchedConversionId].createdBy = receipts[i].createdBy
  /\ \A i \in DOMAIN receipts :
       \A j \in FeeLinesOfImpression(i) :
         receipts[ledger[j].referenceId].createdBy = receipts[i].createdBy

\* C37: a request that checkIdempotency answers from the cache is a request of
\* the publisher whose request stored the entry (and the receipt it names).
C37_CacheWithinPublisher ==
  \A p \in Procs :
    EventDone(p) /\ req[p].hit /\ req[p].resp.receipt_id # 0
      => receipts[req[p].resp.receipt_id].createdBy = req[p].publisher

\* C39: in every state the aciLevel stored on a rollup (and with it the
\* aciLabel, a function of the level) is calculateACI of the a2arTier and the
\* asvTier stored on it, and so 0 whenever the asvTier is 0.
C39_StoredAciIsCalculated ==
  \A a \in Advertisers :
    rollups[a].aciLevel = calculateACI(rollups[a].a2arTier, rollups[a].asvTier).tier

\* C40: once no call of updateMetrics is in flight, the a2arPercentage and
\* the a2arTier stored on a rollup are those updateMetrics computes from the
\* pauseOpportunities and verifiedConversions stored on it.
C40_StoredRateIsCurrent ==
  (\A p \in Procs : ~InFlight(p)) =>
    \A a \in Advertisers :
      rollups[a].pauseOpportunities + rollups[a].verifiedConversions > 0 =>
        LET a2ar == updateMetricsA2AR(rollups[a].pauseOpportunities, rollups[a].verifiedConversions)
        IN /\ rollups[a].a2arPercentage = a2ar.value
           /\ rollups[a].a2arTier = a2ar.tier

\* C31: under any interleaving of login requests, an account that holds 5 or
\* more failed attempts has a lock (lockUntil set, 15 minutes ahead of the
\* attempt that set it), and no login has its password accepted, and goes on
\* to its 200, while the stored account is locked.
C31_LockoutHolds ==
  /\ [](\A e \in Emails :
          /\ users[e].loginAttempts >= maxAttempts => users[e].lockUntil # NoTime
          /\ users[e].lockUntil # NoTime => users[e].lockUntil <= nowMinutes + lockTime)
  /\ [][\A p \in Procs :
          req[p].kind = "login" /\ req[p].pc = "compare" /\ req'[p].pc = "save"
            => ~isLocked(users[req[p].email])]_vars

====
